---- MODULE Spec2Model ----
(***************************************************************************)
(* Verification model of the stock screener: the indicator engine and the  *)
(* V3 scorer (screener_v3.py), the concurrent screening orchestrator       *)
(* (StockScreenerV3.screen_stocks), the scheduler entry points             *)
(* (scheduler.py) and the weekly weight adaptation (weekly_analysis.py).   *)
(*                                                                         *)
(* Number representation.  Python floats are modelled as fixed-point       *)
(* integers carrying FP units per 1.0 (division rounds toward minus        *)
(* infinity).  Prices are whole dollars, volumes are counted in thousands  *)
(* of shares (so min_avg_volume = 1000000 shares is 1000 units), which     *)
(* keeps every intermediate product inside 32-bit integers.                *)
(***************************************************************************)
EXTENDS Integers, Sequences, FiniteSets, TLC

VARIABLES
    clock,   \* the wall clock (datetime.now(), time.time()), in ticks
    probe,   \* scorer harness: the input under analysis, [d, config]
    calls,   \* scorer harness: the outcomes of the analyze_stock calls so far
    config_file,            \* config.json: [weights |-> None or the weights,
                            \*   telegram |-> notifications are enabled]
    model_params_history,   \* rows of the model_params_history table
    adjustments,            \* what the last adaptation cycle returned
    cycles,                 \* adaptation cycles run so far
    phase,                  \* "idle", "screening" or "returned"
    scan_type,              \* "none", "priority" or "extended"
    scan_config,            \* run_*_scan: config = load_config()
    screener_config,        \* StockScreenerV3.config of the scan's screener
    max_workers,            \* StockScreenerV3.max_workers
    symbols,                \* the universe submitted to screen_stocks
    task_pc,                \* per submitted task: where its worker stands
    response,               \* per task: what the market-data call answered
    future,                 \* per task: the future's state and result
    loaded,                 \* per task: the counter value read by "+= 1"
    lock,                   \* StockScreenerV3._lock: 0 or the holding task
    processed_count,        \* StockScreenerV3._processed_count
    failed_count,           \* StockScreenerV3._failed_count
    results,                \* screen_stocks: the results list
    stats,                  \* StockScreenerV3.stats (RunTimeStats)
    screening_results,      \* rows of the screening_results table
    performance_tracking,   \* rows of the performance_tracking table
    op,                     \* the last call on the database and how it ended
    runtime_history,        \* data/runtime_history.json
    last_report,            \* the report file the last scan wrote
    sent,                   \* Telegram messages sent by the last scan
    scans                   \* scans started so far

\* Python's None as a call result
None == [none |-> TRUE]

\* a None entry of a quote list (prices and volumes are never negative)
NoneEntry == -1

\* fixed-point units per 1.0 of a Python float
FP == 10000

----------------------------------------------------------------------------
(* Generic list helpers (Python built-ins sum, max, min, slicing).         *)

\* sum(s[lo..hi]), max(s[lo..hi]), min(s[lo..hi]); the range is halved at
\* each step to keep the evaluation shallow
RECURSIVE SumRange(_, _, _)
SumRange(s, lo, hi) ==
    IF lo > hi THEN 0
    ELSE IF lo = hi THEN s[lo]
    ELSE LET mid == (lo + hi) \div 2
         IN SumRange(s, lo, mid) + SumRange(s, mid + 1, hi)

MaxRange(s, lo, hi) ==
    CHOOSE m \in {s[i] : i \in lo..hi} : \A i \in lo..hi : s[i] <= m

MinRange(s, lo, hi) ==
    CHOOSE m \in {s[i] : i \in lo..hi} : \A i \in lo..hi : s[i] >= m

\* index of the first element of the Python slice s[-k:]
TailStart(s, k) == IF Len(s) > k THEN Len(s) - k + 1 ELSE 1

\* s[-k] for k >= 1
Last(s, k) == s[Len(s) - k + 1]

\* [x for x in s if x is not None]
IsEntry(x) == x # NoneEntry
DropNone(s) == SelectSeq(s, IsEntry)

Abs(x) == IF x < 0 THEN -x ELSE x

----------------------------------------------------------------------------
(* TechnicalIndicators (screener_v3.py).  Inputs of calculate_sma,         *)
(* calculate_ema and calculate_macd are fixed-point values; calculate_rsi  *)
(* and calculate_obv take the raw integer closes and volumes.              *)

ToFP(s) == [i \in 1..Len(s) |-> s[i] * FP]

calculate_sma(prices, period) ==
    IF Len(prices) < period THEN <<>>
    ELSE [k \in 1..(Len(prices) - period + 1) |->
              SumRange(prices, k, k + period - 1) \div period]

\* the loop of calculate_ema over prices[lo..hi], prev being ema[-1] on entry:
\*     ema.append((price - ema[-1]) * multiplier + ema[-1])
\* (the span is halved at each step to keep the evaluation shallow)
RECURSIVE EmaLoop(_, _, _, _, _)
EmaLoop(prices, period, lo, hi, prev) ==
    IF lo > hi THEN <<>>
    ELSE IF lo = hi
         THEN << ((prices[lo] - prev) * 2) \div (period + 1) + prev >>
         ELSE LET mid  == (lo + hi) \div 2
                  left == EmaLoop(prices, period, lo, mid, prev)
              IN left \o EmaLoop(prices, period, mid + 1, hi, Last(left, 1))

calculate_ema(prices, period) ==
    IF Len(prices) < period THEN <<>>
    ELSE LET seed == SumRange(prices, 1, period) \div period
         IN <<seed>> \o EmaLoop(prices, period, period + 1, Len(prices), seed)

calculate_macd(prices) ==
    IF Len(prices) < 26
    THEN [macd_line |-> <<>>, signal_line |-> <<>>, histogram |-> <<>>]
    ELSE LET ema12full == calculate_ema(prices, 12)
             ema26     == calculate_ema(prices, 26)
             diff      == Len(ema12full) - Len(ema26)
             ema12     == SubSeq(ema12full, diff + 1, Len(ema12full))
             macd_full == [i \in 1..Len(ema26) |-> ema12[i] - ema26[i]]
         IN IF Len(macd_full) >= 9
            THEN LET signal_line == calculate_ema(macd_full, 9)
                     macd_line   == SubSeq(macd_full,
                                           Len(macd_full) - Len(signal_line) + 1,
                                           Len(macd_full))
                 IN [macd_line   |-> macd_line,
                     signal_line |-> signal_line,
                     histogram   |-> [i \in 1..Len(signal_line) |->
                                          macd_line[i] - signal_line[i]]]
            ELSE [macd_line |-> macd_full, signal_line |-> <<>>,
                  histogram |-> <<>>]

\* sum of the gains (up = TRUE) or of the losses over the deltas lo..hi
RECURSIVE DeltaSum(_, _, _, _)
DeltaSum(prices, lo, hi, up) ==
    IF lo > hi THEN 0
    ELSE IF lo = hi
         THEN LET change == prices[lo] - prices[lo - 1]
              IN IF up THEN (IF change > 0 THEN change ELSE 0)
                 ELSE (IF change > 0 THEN 0 ELSE Abs(change))
         ELSE LET mid == (lo + hi) \div 2
              IN DeltaSum(prices, lo, mid, up) + DeltaSum(prices, mid + 1, hi, up)

\* rsi = 100 - 100 / (1 + avg_gain / avg_loss) = 100 * gain / (gain + loss),
\* and 100 when avg_loss = 0; the result is a fixed-point value
calculate_rsi(prices, period) ==
    IF Len(prices) < period + 1 THEN <<>>
    ELSE [k \in 1..(Len(prices) - period) |->
            LET i    == k + period
                gain == DeltaSum(prices, i - period + 1, i, TRUE)
                loss == DeltaSum(prices, i - period + 1, i, FALSE)
            IN IF loss = 0 THEN 100 * FP
               ELSE (100 * FP * gain) \div (gain + loss)]

\* the loop of calculate_obv over i in lo..hi, prev being obv[-1] on entry
RECURSIVE ObvLoop(_, _, _, _, _)
ObvLoop(prices, volumes, lo, hi, prev) ==
    IF lo > hi THEN <<>>
    ELSE IF lo = hi
         THEN << IF prices[lo] > prices[lo - 1] THEN prev + volumes[lo]
                 ELSE IF prices[lo] < prices[lo - 1] THEN prev - volumes[lo]
                 ELSE prev >>
         ELSE LET mid  == (lo + hi) \div 2
                  left == ObvLoop(prices, volumes, lo, mid, prev)
              IN left \o ObvLoop(prices, volumes, mid + 1, hi, Last(left, 1))

calculate_obv(prices, volumes) ==
    IF Len(prices) # Len(volumes) \/ Len(prices) < 2 THEN <<>>
    ELSE <<0>> \o ObvLoop(prices, volumes, 2, Len(prices), 0)

----------------------------------------------------------------------------
(* Signal tags.  A tag is the rule that emitted it plus the number         *)
(* formatted into its text.  TagText is the text as a token sequence:      *)
(* Latin letters and digits one token each, every Chinese character one    *)
(* token (pinyin), "#" for a formatted number.                             *)

Tag(rule, arg) == [rule |-> rule, arg |-> arg]

TagText(tag) ==
    CASE tag.rule = "ma_golden_cross" ->
            <<"fire", " ", "M", "A", "#", "/", "#", "jin", "cha", "que", "ren">>
      [] tag.rule = "ma_bullish_alignment" ->
            <<"chart", " ", "jun", "xian", "duo", "tou", "pai", "lie">>
      [] tag.rule = "macd_golden_cross" ->
            <<"fire", " ", "M", "A", "C", "D", "jin", "cha", "que", "ren">>
      [] tag.rule = "macd_bullish_accel" ->
            <<"bars", " ", "M", "A", "C", "D", "duo", "tou", "jia", "su">>
      [] tag.rule = "rsi_oversold_rebound" ->
            <<"fire", " ", "R", "S", "I", "chao", "mai", "fan", "tan", " ", "(", "#", ")">>
      [] tag.rule = "rsi_cross_50" ->
            <<"chart", " ", "R", "S", "I", "tu", "po", "5", "0", "bing", "shang",
              "sheng", " ", "(", "#", ")">>
      [] tag.rule = "volume_surge" ->
            <<"fire", " ", "cheng", "jiao", "liang", "fang", "da", " ", "#", "bei">>
      [] tag.rule = "breakout_52w" ->
            <<"fire", " ", "tu", "po", "5", "2", "zhou", "xin", "gao", " ", "(", "#",
              "%", ")">>
      [] tag.rule = "near_52w" ->
            <<"chart", " ", "jie", "jin_near", "5", "2", "zhou", "xin", "gao", " ",
              "(", "#", "%", ")">>
      [] tag.rule = "breakout_20d" ->
            <<"chart", " ", "tu", "po", "2", "0", "ri", "gao", "dian">>
      [] tag.rule = "obv_rising" ->
            <<"bars", " ", "O", "B", "V", "chi", "xu", "shang", "sheng">>
      [] tag.rule = "strong_up" ->
            <<"chart", " ", "qiang", "shi", "shang", "zhang">>
      [] tag.rule = "steady_up" ->
            <<"chart", " ", "wen_steady", "bu", "shang", "zhang">>
      [] tag.rule = "mild_up" ->
            <<"chart", " ", "wen_mild", "he", "shang", "zhang">>
      [] OTHER -> <<"chart", " ", tag.rule>>

\* Python's  pattern in text  on strings
Contains(text, pattern) ==
    \E i \in 1..(Len(text) - Len(pattern) + 1) :
        SubSeq(text, i, i + Len(pattern) - 1) = pattern

\* round a fixed-point value to a multiple of unit (the "%.Nf" formats)
RoundTo(x, unit) == (x + unit \div 2) \div unit

----------------------------------------------------------------------------
(* StockScreenerV3 configuration.                                          *)

_default_config ==
    [min_price          |-> 5,
     max_price          |-> 1000,
     min_avg_volume     |-> 1000,       \* 1000000 shares
     min_score          |-> 40,
     volume_surge_ratio |-> 18000,      \* 1.8
     trend_confirm_days |-> 3,
     ma_short           |-> 20,
     ma_long            |-> 50,
     rsi_oversold       |-> 30,
     weights |-> [ma_golden_cross    |-> 30,
                  macd_golden_cross  |-> 25,
                  rsi_reversal       |-> 20,
                  volume_surge       |-> 15,
                  price_breakout_52w |-> 20,
                  price_breakout_20d |-> 10,
                  trend_continuation |-> 15,
                  obv_confirm        |-> 10]]

----------------------------------------------------------------------------
(* check_trend_strength and check_signal_quality.                          *)

\* sum(1 for i in range(1, len(recent)) if recent[i] > recent[i-1])
UpDays(recent) ==
    Cardinality({i \in 2..Len(recent) : recent[i] > recent[i - 1]})

\* variant: the mild rise carries no bonus
check_trend_strength_mild_flat(closes, days) ==
    IF Len(closes) < days + 1 THEN [desc |-> "insufficient", bonus |-> 0]
    ELSE LET recent  == SubSeq(closes, Len(closes) - days, Len(closes))
             up_days == UpDays(recent)
             first   == recent[1]
             last    == recent[Len(recent)]
             over3   == first > 0 /\ (last - first) * 100 > 3 * first
             over0   == first > 0 /\ last > first
         IN IF up_days >= days - 1 /\ over3 THEN [desc |-> "strong_up", bonus |-> 15]
            ELSE IF up_days >= days - 1 /\ over0
                 THEN [desc |-> "steady_up", bonus |-> 10]
            ELSE IF up_days >= (days \div 2) + 1
                 THEN [desc |-> "mild_up", bonus |-> 0]
            ELSE IF up_days <= 1 THEN [desc |-> "declining", bonus |-> -10]
            ELSE [desc |-> "choppy", bonus |-> 0]

check_trend_strength(closes, days) ==
    IF Len(closes) < days + 1 THEN [desc |-> "insufficient", bonus |-> 0]
    ELSE LET recent  == SubSeq(closes, Len(closes) - days, Len(closes))
             up_days == UpDays(recent)
             first   == recent[1]
             last    == recent[Len(recent)]
             \* total_change = (last - first) / first * 100 if first > 0 else 0
             over3   == first > 0 /\ (last - first) * 100 > 3 * first
             over0   == first > 0 /\ last > first
         IN IF up_days >= days - 1 /\ over3 THEN [desc |-> "strong_up", bonus |-> 15]
            ELSE IF up_days >= days - 1 /\ over0
                 THEN [desc |-> "steady_up", bonus |-> 10]
            ELSE IF up_days >= (days \div 2) + 1
                 THEN [desc |-> "mild_up", bonus |-> 5]
            ELSE IF up_days <= 1 THEN [desc |-> "declining", bonus |-> -10]
            ELSE [desc |-> "choppy", bonus |-> 0]

strong_signals ==
    << <<"jin", "cha">>,
       <<"5", "2", "zhou", "xin", "gao">>,
       <<"cheng", "jiao", "liang", "fang", "da">> >>

check_signal_quality(signals, score) ==
    LET strong_count ==
            Cardinality({i \in 1..Len(signals) :
                \E k \in 1..Len(strong_signals) :
                    Contains(TagText(signals[i]), strong_signals[k])})
    IN IF strong_count >= 2 /\ score >= 70 THEN "A"
       ELSE IF strong_count >= 1 /\ score >= 50 THEN "B"
       ELSE IF score >= 40 THEN "C"
       ELSE "D"

----------------------------------------------------------------------------
(* The market-data collaborator.  What it returns for a symbol is given by *)
(* a parameter record d:                                                   *)
(*   resp     "ok" (a chart result), "none" (no usable response) or        *)
(*            "raise" (the client raised)                                  *)
(*   n        number of bars                                               *)
(*   base, slope, zig, tail   shape of the closes: a line with an          *)
(*            alternating component, the last three bars offset by         *)
(*            Tails[tail]                                                  *)
(*   vbase, vmul   every volume is vbase, the last one vbase * vmul        *)
(*   nullVol  which volume entries are None: "none", "one" or "all"        *)
(*   hs       0: highs are close + 1; 1: also an early spike; 2: also a    *)
(*            spike within the last 20 bars                                *)
(*   price    meta.regularMarketPrice: [kind |-> "absent"], "null" (None)  *)
(*            or "value" with val                                          *)
(*   named    whether meta carries a shortName                             *)

Tails == << <<0, 0, 0>>, <<-1, -2, 20>>, <<1, 2, 3>>, <<2, 1, 3>>,
            <<3, -2, 1>>, <<-5, -4, -3>>, <<5, 10, 15>>, <<-1, -2, -3>> >>

SpikeHigh == 250

Closes(d) ==
    [i \in 1..d.n |->
        IF i <= d.n - 3 THEN d.base + d.slope * i + d.zig * (i % 2)
        ELSE d.base + d.slope * (d.n - 3) + d.zig * ((d.n - 3) % 2)
             + Tails[d.tail][i - (d.n - 3)]]

Volumes(d) ==
    [i \in 1..d.n |->
        IF d.nullVol = "all" \/ (d.nullVol = "one" /\ i = 1) THEN NoneEntry
        ELSE IF i = d.n THEN d.vbase * d.vmul ELSE d.vbase]

Highs(d) ==
    [i \in 1..d.n |->
        IF (d.hs >= 1 /\ i = 1) \/ (d.hs >= 2 /\ i = d.n - 5) THEN SpikeHigh
        ELSE Closes(d)[i] + 1]

ShortName == <<"A", "c", "m", "e">>

\* variant of get_stock_data without its try/except
get_stock_data_unguarded(d) ==
    IF d.resp = "raise" THEN [kind |-> "raise"]
    ELSE IF d.resp = "ok" THEN [kind |-> "return", value |-> d]
    ELSE [kind |-> "return", value |-> None]

\* get_stock_data: the chart result; None when the call raised (the except
\* clause) or the response carries no result
get_stock_data(d) ==
    IF d.resp = "ok" THEN [kind |-> "return", value |-> d]
    ELSE [kind |-> "return", value |-> None]

----------------------------------------------------------------------------
(* analyze_stock.  acc is the pair (signals, score) the rules accumulate.  *)

Fire(acc, tag, weight) ==
    [signals |-> Append(acc.signals, tag), score |-> acc.score + weight]

\* 1. moving-average golden cross / bullish alignment
RuleMA(acc, closes, config) ==
    LET ma_short == calculate_sma(ToFP(closes), config.ma_short)
        ma_long  == calculate_sma(ToFP(closes), config.ma_long)
    IN IF Len(ma_short) >= 3 /\ Len(ma_long) >= 3
       THEN LET offset == Len(ma_short) - Len(ma_long)
                ma_short_aligned ==
                    IF offset > 0 THEN SubSeq(ma_short, offset + 1, Len(ma_short))
                    ELSE ma_short
                ma_long_aligned ==
                    IF offset < 0
                    THEN SubSeq(ma_long, Len(ma_long) - Len(ma_short_aligned) + 1,
                                Len(ma_long))
                    ELSE ma_long
            IN IF Len(ma_short_aligned) >= 3 /\ Len(ma_long_aligned) >= 3
               THEN IF /\ Last(ma_short_aligned, 1) > Last(ma_long_aligned, 1)
                       /\ Last(ma_short_aligned, 2) <= Last(ma_long_aligned, 2)
                    THEN IF Last(closes, 1) > Last(closes, 2)
                         THEN Fire(acc, Tag("ma_golden_cross", 0),
                                   config.weights.ma_golden_cross)
                         ELSE acc
                    ELSE IF /\ Last(ma_short_aligned, 1) > Last(ma_long_aligned, 1)
                            /\ Last(ma_short_aligned, 1) > Last(ma_short_aligned, 2)
                            /\ Last(ma_short_aligned, 2) > Last(ma_short_aligned, 3)
                         THEN Fire(acc, Tag("ma_bullish_alignment", 0),
                                   config.weights.trend_continuation)
                         ELSE acc
               ELSE acc
       ELSE acc

\* 2. MACD golden cross / bullish acceleration, m being what calculate_macd
\* returned
RuleMACDOn(acc, m, config) ==
    IF m.macd_line # <<>> /\ m.signal_line # <<>> /\ Len(m.macd_line) >= 3
    THEN IF /\ Last(m.macd_line, 1) > Last(m.signal_line, 1)
            /\ Last(m.macd_line, 2) <= Last(m.signal_line, 2)
            /\ Last(m.macd_line, 1) > Last(m.macd_line, 2)
         THEN Fire(acc, Tag("macd_golden_cross", 0),
                   config.weights.macd_golden_cross)
         ELSE IF /\ Last(m.macd_line, 1) > 0
                 /\ Len(m.histogram) >= 2
                 /\ Last(m.histogram, 1) > Last(m.histogram, 2)
                 /\ Last(m.histogram, 2) > 0
              THEN Fire(acc, Tag("macd_bullish_accel", 0),
                        config.weights.macd_golden_cross \div 2)
              ELSE acc
    ELSE acc

RuleMACD(acc, closes, config) ==
    RuleMACDOn(acc, calculate_macd(ToFP(closes)), config)

\* 3. RSI rebound from the oversold zone / RSI crossing 50
RuleRSI(acc, closes, config) ==
    LET rsi == calculate_rsi(closes, 14)
    IN IF Len(rsi) >= 3
       THEN LET current_rsi == Last(rsi, 1)
                \* min(rsi[-5:-1])
                low == MinRange(rsi, IF Len(rsi) > 5 THEN Len(rsi) - 4 ELSE 1,
                                Len(rsi) - 1)
            IN IF /\ low < config.rsi_oversold * FP
                  /\ current_rsi > config.rsi_oversold * FP
                  /\ current_rsi > Last(rsi, 2)
               THEN Fire(acc, Tag("rsi_oversold_rebound", RoundTo(current_rsi, FP)),
                         config.weights.rsi_reversal)
               ELSE IF /\ Last(rsi, 2) < 50 * FP
                       /\ current_rsi > 50 * FP
                       /\ current_rsi > Last(rsi, 2)
                       /\ Last(rsi, 2) > Last(rsi, 3)
                    THEN Fire(acc, Tag("rsi_cross_50", RoundTo(current_rsi, FP)),
                              config.weights.rsi_reversal \div 2)
                    ELSE acc
       ELSE acc

\* avg_volume = sum(volumes[-20:]) / 20 if len(volumes) >= 20
\*              else sum(volumes) / len(volumes), kept as a fraction
AvgVolume(volumes) ==
    IF Len(volumes) >= 20
    THEN [num |-> SumRange(volumes, Len(volumes) - 19, Len(volumes)), den |-> 20]
    ELSE [num |-> SumRange(volumes, 1, Len(volumes)), den |-> Len(volumes)]

\* 4. volume surge
RuleVolume(acc, volumes, avg, config) ==
    IF Len(volumes) >= 2
    THEN LET current_volume == Last(volumes, 1)
             volume_ratio ==
                 IF avg.num > 0 THEN (current_volume * avg.den * FP) \div avg.num
                 ELSE 0
         IN IF volume_ratio >= config.volume_surge_ratio
            THEN Fire(acc, Tag("volume_surge", RoundTo(volume_ratio, FP \div 10)),
                      config.weights.volume_surge)
            ELSE acc
    ELSE acc

\* variant: the near-high case scores the full weight
Rule52wNearFull(acc, highs, current_price, config) ==
    LET high_52w  == MaxRange(highs, TailStart(highs, 250), Len(highs))
        ratio_52w == IF high_52w > 0 THEN (current_price * FP) \div high_52w ELSE 0
    IN IF ratio_52w >= 9800
       THEN Fire(acc, Tag("breakout_52w", RoundTo(ratio_52w, FP \div 1000)),
                 config.weights.price_breakout_52w)
       ELSE IF ratio_52w >= 9200
            THEN Fire(acc, Tag("near_52w", RoundTo(ratio_52w, FP \div 1000)),
                      config.weights.price_breakout_52w)
            ELSE acc

\* 5. breakout of the 52-week high and of the 20-day high
Rule52w(acc, highs, current_price, config) ==
    LET high_52w  == MaxRange(highs, TailStart(highs, 250), Len(highs))
        ratio_52w == IF high_52w > 0 THEN (current_price * FP) \div high_52w ELSE 0
    IN IF ratio_52w >= 9800
       THEN Fire(acc, Tag("breakout_52w", RoundTo(ratio_52w, FP \div 1000)),
                 config.weights.price_breakout_52w)
       ELSE IF ratio_52w >= 9200
            THEN Fire(acc, Tag("near_52w", RoundTo(ratio_52w, FP \div 1000)),
                      config.weights.price_breakout_52w \div 2)
            ELSE acc

Rule20d(acc, highs, current_price, config) ==
    LET high_20d == MaxRange(highs, TailStart(highs, 20), Len(highs))
    IN \* current_price >= high_20d * 0.99
       IF current_price * 100 >= high_20d * 99
       THEN Fire(acc, Tag("breakout_20d", 0), config.weights.price_breakout_20d)
       ELSE acc

RuleBreakout(acc, highs, current_price, config) ==
    IF Len(highs) >= 20
    THEN Rule20d(Rule52w(acc, highs, current_price, config),
                 highs, current_price, config)
    ELSE acc

\* 6. OBV confirmation
RuleOBV(acc, closes, volumes, config) ==
    LET obv == calculate_obv(closes, volumes)
    IN IF Len(obv) >= 10
       THEN LET sum10 == SumRange(obv, Len(obv) - 9, Len(obv))
            IN \* obv[-1] > (sum10 / 10) * 1.05 and obv[-1] > obv[-2] > obv[-3]
               IF /\ Last(obv, 1) * 1000 > sum10 * 105
                  /\ Last(obv, 1) > Last(obv, 2)
                  /\ Last(obv, 2) > Last(obv, 3)
               THEN Fire(acc, Tag("obv_rising", 0), config.weights.obv_confirm)
               ELSE acc
       ELSE acc

\* the accumulator after rules 1..6, before the trend bonus
ScoreRules(closes, volumes, highs, avg, current_price, config) ==
    RuleOBV(
      RuleBreakout(
        RuleVolume(
          RuleRSI(
            RuleMACD(
              RuleMA([signals |-> <<>>, score |-> 0], closes, config),
              closes, config),
            closes, config),
          volumes, avg, config),
        highs, current_price, config),
      closes, volumes, config)

\* variant: the bonus is added inside the "if trend_score > 0" block
RuleTrendNoPenalty(acc, trend) ==
    IF trend.bonus > 0
    THEN [signals |-> Append(acc.signals, Tag(trend.desc, 0)),
          score   |-> acc.score + trend.bonus]
    ELSE acc

\* 7. trend strength: the tag only for a positive bonus, the bonus always
RuleTrend(acc, trend) ==
    [signals |-> IF trend.bonus > 0
                 THEN Append(acc.signals, Tag(trend.desc, 0))
                 ELSE acc.signals,
     score   |-> acc.score + trend.bonus]

\* variant: the price is a live quote that moves with the wall clock
CurrentPriceLive(data, closes) ==
    IF data.price.kind = "value" THEN data.price.val ELSE Last(closes, 1) + clock

\* meta.get('regularMarketPrice', closes[-1])
CurrentPrice(data, closes) ==
    IF data.price.kind = "value" THEN data.price.val ELSE Last(closes, 1)

\* the filter gate: price within [min_price, max_price] and
\* avg_volume >= min_avg_volume
PassesGatePriceNoMin(current_price, config) ==
    ~(current_price > config.max_price)

PassesGatePrice(current_price, config) ==
    ~(current_price < config.min_price \/ current_price > config.max_price)

PassesGateVolume(avg, config) ==
    ~(avg.num < config.min_avg_volume * avg.den)

\* variant: the threshold itself does not qualify
QualifiesStrict(signals, score, config) ==
    signals # <<>> /\ score > config.min_score

\* if signals and score >= self.config['min_score']
Qualifies(signals, score, config) ==
    signals # <<>> /\ score >= config.min_score

\* name[:30] if name else symbol
DisplayName(name, symbol) ==
    IF name # <<>> THEN SubSeq(name, 1, IF Len(name) < 30 THEN Len(name) ELSE 30)
    ELSE symbol

\* What a call of analyze_stock leaves behind: how it ended (kind), the
\* value it returned, and its local variables at that point (frame):
\*   stage   where the call ended: "no_data", "short", "price_error",
\*           "gate_price", "volume_error", "gate_volume" or "scored"
\*   signals, score   the tags and the total at the emission test
\*   rules_score      the accumulator before the trend bonus
\*   trend            the trend class
Frame(stage, signals, rules_score, score, trend) ==
    [stage |-> stage, signals |-> signals, rules_score |-> rules_score,
     score |-> score, trend |-> trend]

Ended(kind, value, stage) ==
    [kind |-> kind, value |-> value, frame |-> Frame(stage, <<>>, 0, 0, "none")]

\* the StockSignal built at the end of analyze_stock
StockSignal(symbol, name, current_price, closes, volumes, avg, signals, score, trend, now) ==
    LET prev_close == Last(closes, 2)
    IN [symbol         |-> symbol,
        name           |-> DisplayName(name, symbol),
        current_price  |-> current_price,
        change_percent |-> IF prev_close > 0
                           THEN ((current_price - prev_close) * 100 * FP)
                                    \div prev_close
                           ELSE 0,
        volume         |-> Last(volumes, 1),
        avg_volume     |-> (avg.num * FP) \div avg.den,
        signals        |-> signals,
        score          |-> score,
        trend_strength |-> trend.desc,
        signal_quality |-> check_signal_quality(signals, score),
        timestamp      |-> now]

\* the emission test and the StockSignal, acc being the tags and the total
\* after the trend bonus
Emit(symbol, name, current_price, closes, volumes, avg, rules_score, acc, trend, config, now) ==
    [kind  |-> "return",
     value |-> IF Qualifies(acc.signals, acc.score, config)
               THEN StockSignal(symbol, name, current_price, closes, volumes, avg,
                                acc.signals, acc.score, trend, now)
               ELSE None,
     frame |-> Frame("scored", acc.signals, rules_score, acc.score, trend.desc)]

\* the scoring, rules being the accumulator after rules 1..6
Score(symbol, name, current_price, closes, volumes, avg, rules, trend, config, now) ==
    Emit(symbol, name, current_price, closes, volumes, avg, rules.score,
         RuleTrend(rules, trend), trend, config, now)

\* the volume gate and what follows it
GateVolume(symbol, name, current_price, closes, volumes, highs, avg, config, now) ==
    IF ~PassesGateVolume(avg, config)
    THEN Ended("return", None, "gate_volume")
    ELSE Score(symbol, name, current_price, closes, volumes, avg,
               ScoreRules(closes, volumes, highs, avg, current_price, config),
               check_trend_strength(closes, config.trend_confirm_days),
               config, now)

\* the price gate and what follows it
GatePrice(symbol, name, current_price, closes, volumes, highs, config, now) ==
    IF ~PassesGatePrice(current_price, config)
    THEN Ended("return", None, "gate_price")
    ELSE IF Len(volumes) = 0
    THEN Ended("raise", None, "volume_error")    \* ZeroDivisionError
    ELSE GateVolume(symbol, name, current_price, closes, volumes, highs,
                    AvgVolume(volumes), config, now)

\* the try block from the length test on
Quotes(symbol, data, closes, volumes, highs, config, now) ==
    IF Len(closes) < 60 THEN Ended("return", None, "short")
    ELSE IF data.price.kind = "null"
    THEN Ended("raise", None, "price_error")     \* None < int: TypeError
    ELSE GatePrice(symbol, IF data.named THEN ShortName ELSE symbol,
                   CurrentPrice(data, closes), closes, volumes, highs, config,
                   now)

\* the body of the try block
AnalyzeBody(symbol, data, config, now) ==
    Quotes(symbol, data, DropNone(Closes(data)), DropNone(Volumes(data)),
           DropNone(Highs(data)), config, now)

\* variant: no except clause, the exception propagates
AnalyzeExceptPropagate(outcome) == outcome

\* the except clause of analyze_stock: any exception becomes None
AnalyzeExcept(outcome) ==
    IF outcome.kind = "raise"
    THEN [outcome EXCEPT !.kind = "return", !.value = None]
    ELSE outcome

\* analyze_stock after the call of get_stock_data, which stands before the
\* try block, so that an exception of it would escape
Fetched(symbol, fetched, config, now) ==
    IF fetched.kind = "raise" THEN Ended("raise", None, "no_data")
    ELSE IF fetched.value = None THEN Ended("return", None, "no_data")
    ELSE AnalyzeExcept(AnalyzeBody(symbol, fetched.value, config, now))

\* analyze_stock(symbol) at wall-clock time now, where d is what the
\* market-data collaborator answers for the symbol
analyze_stock(symbol, d, config, now) ==
    Fetched(symbol, get_stock_data(d), config, now)

----------------------------------------------------------------------------
(* The state of the scheduler's tasks between two runs.                    *)

scorer_vars == <<probe, calls>>

store_vars == <<config_file, model_params_history, adjustments, cycles>>

scan_vars ==
    <<phase, scan_type, scan_config, screener_config, max_workers, symbols,
      task_pc, response, future, loaded, lock, processed_count, failed_count,
      results, stats>>

db_vars == <<screening_results, performance_tracking, op>>

out_vars == <<runtime_history, last_report, sent, scans>>

vars == <<clock, scorer_vars, store_vars, scan_vars, db_vars, out_vars>>

\* no scan is running: the locals of the last one are gone
NoScan ==
    /\ phase = "idle"
    /\ scan_type = "none"
    /\ scan_config = None
    /\ screener_config = None
    /\ max_workers = 0
    /\ symbols = <<>>
    /\ task_pc = <<>>
    /\ response = <<>>
    /\ future = <<>>
    /\ loaded = <<>>
    /\ lock = 0
    /\ processed_count = 0
    /\ failed_count = 0
    /\ results = <<>>
    /\ stats = None

\* a fresh deployment: config.json carries no weights, no adaptation has run
FreshStore ==
    /\ config_file = [weights |-> None, telegram |-> TRUE]
    /\ model_params_history = <<>>
    /\ adjustments = [applied |-> <<>>, skipped |-> <<>>]
    /\ cycles = 0

\* a database whose tables were just created by _init_db
EmptyDatabase ==
    /\ screening_results = <<>>
    /\ performance_tracking = <<>>
    /\ op = [name |-> "none", seq |-> 0]

\* no scan has run yet: no runtime history, no report, nothing sent
NoOutput ==
    /\ runtime_history = <<>>
    /\ last_report = None
    /\ sent = <<>>
    /\ scans = 0

----------------------------------------------------------------------------
(* The scorer on its own: analyze_stock applied twice to one input, with   *)
(* the wall clock free to advance in between.                              *)

\* how far the wall clock advances
MaxClock == 1

\* at most this many analyze_stock calls per input
MaxCalls == 2

Shape(slope, zig, tail, vmul, hs) ==
    [resp |-> "ok", n |-> 60, base |-> 100, slope |-> slope, zig |-> zig,
     tail |-> tail, vbase |-> 2000, vmul |-> vmul, nullVol |-> "none",
     hs |-> hs, price |-> [kind |-> "absent", val |-> 0], named |-> FALSE]

Flat == Shape(0, 0, 1, 1, 0)
Cross == Shape(0, 1, 2, 3, 2)

\* 60-bar series of every shape
Shapes ==
    {Shape(slope, 1, tail, vmul, hs) :
        slope \in {-1, 0, 1}, tail \in 1..Len(Tails), vmul \in {1, 3}, hs \in 0..2}

CrossShapes ==
    {Shape(0, 1, tail, vmul, hs) : tail \in 1..Len(Tails), vmul \in {1, 3}, hs \in 0..2}

\* missing data, short series, None entries, prices and volumes at the gate
Specials ==
    {[Flat EXCEPT !.n = n] : n \in {0, 1, 13, 14, 19, 25, 26, 49, 59}}
    \cup {[Cross EXCEPT !.resp = r] : r \in {"none", "raise"}}
    \cup {[Cross EXCEPT !.price = [kind |-> k, val |-> v]] :
             k \in {"null", "value"}, v \in {2, 4, 5, 1000, 1001}}
    \cup {[Cross EXCEPT !.vbase = v] : v \in {500, 900, 999}}
    \cup {[Cross EXCEPT !.nullVol = nv] : nv \in {"one", "all"}}
    \cup {[Shape(slope, 0, 1, 1, 0) EXCEPT !.base = 3] : slope \in {-1, 0}}
    \cup {[Shape(0, 1, 3, 1, 0) EXCEPT !.named = TRUE],
          [Cross EXCEPT !.n = 61], [Shape(1, 1, 2, 1, 0) EXCEPT !.n = 75],
          Shape(-1, 3, 7, 3, 0), Shape(-1, 3, 7, 3, 1), Shape(0, 0, 6, 1, 0)}

ScorerConfigs ==
    {[_default_config EXCEPT !.min_score = 30],
     [_default_config EXCEPT !.trend_confirm_days = 5]}

ProbeSet ==
    {[d |-> d, config |-> _default_config] : d \in Shapes \cup Specials}
    \cup {[d |-> d, config |-> c] : d \in CrossShapes, c \in ScorerConfigs}

ProbeSymbol == <<"A", "A", "A">>

ScorerInit ==
    /\ clock = 0
    /\ probe \in ProbeSet
    /\ calls = <<>>
    /\ FreshStore
    /\ EmptyDatabase
    /\ NoOutput
    /\ NoScan

\* one call of analyze_stock on the input
ScorerAnalyze ==
    /\ Len(calls) < MaxCalls
    /\ calls' = Append(calls, analyze_stock(ProbeSymbol, probe.d, probe.config, clock))
    /\ UNCHANGED <<clock, probe, store_vars, scan_vars, db_vars, out_vars>>

\* time passes
ScorerTick ==
    /\ clock < MaxClock
    /\ clock' = clock + 1
    /\ UNCHANGED <<scorer_vars, store_vars, scan_vars, db_vars, out_vars>>

ScorerNext == ScorerAnalyze \/ ScorerTick

ScorerSpec == ScorerInit /\ [][ScorerNext]_vars

----------------------------------------------------------------------------
(* Properties of the scorer, stated over the calls made so far.            *)

Call(i) == calls[i]
CallIds == 1..Len(calls)
Emitted(o) == o.value # None

\* the input as analyze_stock reads it
ProbeHasData == probe.d.resp = "ok"
ProbeCloses == DropNone(Closes(probe.d))
ProbeVolumes == DropNone(Volumes(probe.d))
ProbePrice == CurrentPrice(probe.d, ProbeCloses)

\* the current price is outside [min_price, max_price]
PriceOutOfRange ==
    /\ probe.d.price.kind # "null"
    /\ \/ ProbePrice < probe.config.min_price
       \/ ProbePrice > probe.config.max_price

\* the average volume of the trailing 20 sessions is below min_avg_volume
VolumeTooLow ==
    /\ Len(ProbeVolumes) >= 20
    /\ SumRange(ProbeVolumes, Len(ProbeVolumes) - 19, Len(ProbeVolumes))
           < 20 * probe.config.min_avg_volume

\* C2: when the current price is outside [min_price, max_price] or the
\* trailing-20-session average volume is below min_avg_volume, analyze_stock
\* returns no signal, whatever the scoring rules would have produced.
C2_GateExcludes ==
    \A i \in CallIds :
        (ProbeHasData /\ Len(ProbeCloses) >= 60 /\ (PriceOutOfRange \/ VolumeTooLow))
            => ~Emitted(Call(i))

\* the score the rules and the trend bonus give the input when the gate is
\* left out
UngatedScore ==
    LET closes  == ProbeCloses
        volumes == ProbeVolumes
        trend   == check_trend_strength(closes, probe.config.trend_confirm_days)
    IN RuleTrend(ScoreRules(closes, volumes, DropNone(Highs(probe.d)),
                            AvgVolume(volumes), ProbePrice, probe.config),
                 trend).score

\* a $2 symbol whose rules alone would score at least min_score was analysed
\* and excluded at the price gate
C2_Witness ==
    /\ Len(calls) >= 1
    /\ probe.d.price = [kind |-> "value", val |-> 2]
    /\ Call(1).frame.stage = "gate_price"
    /\ ~Emitted(Call(1))
    /\ UngatedScore >= probe.config.min_score

\* C3: every emitted Signal has a non-empty tag list and score >= min_score,
\* and an input that passed the gate with at least one tag and
\* score >= min_score is emitted with those tags and that score.
C3_EmittedIffQualified ==
    \A i \in CallIds :
        LET o == Call(i)
        IN /\ Emitted(o) => /\ o.value.signals # <<>>
                            /\ o.value.score >= probe.config.min_score
           /\ ( /\ o.frame.stage = "scored"
                /\ o.frame.signals # <<>>
                /\ o.frame.score >= probe.config.min_score )
                  => /\ Emitted(o)
                     /\ o.value.signals = o.frame.signals
                     /\ o.value.score = o.frame.score

\* a Signal emitted with a score exactly at min_score
C3_Witness ==
    \E i \in CallIds :
        /\ Emitted(Call(i))
        /\ Call(i).value.score = probe.config.min_score

\* the weight the configuration gives a tag: full for the main variant of a
\* rule, the integer half for its partial variant, nothing for a trend tag
TagWeight(rule, w) ==
    CASE rule = "ma_golden_cross"      -> w.ma_golden_cross
      [] rule = "ma_bullish_alignment" -> w.trend_continuation
      [] rule = "macd_golden_cross"    -> w.macd_golden_cross
      [] rule = "macd_bullish_accel"   -> w.macd_golden_cross \div 2
      [] rule = "rsi_oversold_rebound" -> w.rsi_reversal
      [] rule = "rsi_cross_50"         -> w.rsi_reversal \div 2
      [] rule = "volume_surge"         -> w.volume_surge
      [] rule = "breakout_52w"         -> w.price_breakout_52w
      [] rule = "near_52w"             -> w.price_breakout_52w \div 2
      [] rule = "breakout_20d"         -> w.price_breakout_20d
      [] rule = "obv_rising"           -> w.obv_confirm
      [] OTHER                         -> 0

TrendBonus(desc) ==
    CASE desc = "strong_up" -> 15
      [] desc = "steady_up" -> 10
      [] desc = "mild_up"   -> 5
      [] desc = "declining" -> -10
      [] OTHER              -> 0

RECURSIVE TagWeightSum(_, _)
TagWeightSum(signals, w) ==
    IF signals = <<>> THEN 0
    ELSE TagWeight(Head(signals).rule, w) + TagWeightSum(Tail(signals), w)

\* C4: the score of an emitted Signal is the sum of the configured weights
\* (full, or integer half for the partial variants) of exactly the rules whose
\* tags it carries, plus the trend bonus; the accumulator is never negative
\* before the trend bonus is added.
C4_ScoreIsWeightSum ==
    \A i \in CallIds :
        LET o == Call(i)
        IN /\ Emitted(o) =>
                o.value.score = TagWeightSum(o.value.signals, probe.config.weights)
                                    + TrendBonus(o.value.trend_strength)
           /\ o.frame.rules_score >= 0
           /\ o.frame.stage = "scored" =>
                o.frame.score = o.frame.rules_score + TrendBonus(o.frame.trend)

\* a Signal carrying a partial-variant tag and a trend penalty
C4_Witness ==
    \E i \in CallIds :
        /\ Emitted(Call(i))
        /\ Call(i).value.trend_strength = "declining"
        /\ \E k \in 1..Len(Call(i).value.signals) :
               Call(i).value.signals[k].rule = "macd_bullish_accel"

\* C5: for every value of min_score, each emitted Signal carries grade A, B
\* or C; grade D is never attached to an emitted Signal.
C5_NeverGradeD ==
    \A i \in CallIds :
        Emitted(Call(i)) => Call(i).value.signal_quality \in {"A", "B", "C"}

\* the scoring rules (the trend tag apart) that fired in a call
FiredRules(o) ==
    {o.frame.signals[k].rule : k \in 1..Len(o.frame.signals)}
        \ {"strong_up", "steady_up", "mild_up"}

ThreeRules == {"ma_golden_cross", "macd_golden_cross", "volume_surge"}

ThreeTags == <<"ma_golden_cross", "macd_golden_cross", "volume_surge">>

\* the rules of a tag list, in order
TagRules(signals) == [k \in 1..Len(signals) |-> signals[k].rule]

\* a 60-bar series under the default weights on which exactly the MA golden
\* cross, the MACD golden cross and the volume surge fired
ThreeRulesFired(o) ==
    /\ probe.d.n = 60
    /\ probe.config.weights = _default_config.weights
    /\ o.frame.stage = "scored"
    /\ FiredRules(o) = ThreeRules

\* C6 as stated: under the default weights, a 60-bar series on which the MA
\* golden cross, the MACD golden cross and the volume surge fire yields a
\* Signal with score 70, grade A and exactly those three tags.
C6_Score70GradeA ==
    \A i \in CallIds :
        ThreeRulesFired(Call(i)) =>
            /\ Emitted(Call(i))
            /\ Call(i).value.score = 70
            /\ Call(i).value.signal_quality = "A"
            /\ TagRules(Call(i).value.signals) = ThreeTags

\* C6 amended: such a series yields a Signal whose score is 70 plus the trend
\* bonus and whose tags are those three, followed by the trend tag when the
\* bonus is positive; the grade is A from 70 upward and B below.  With
\* trend_confirm_days = 3 the trend is never "choppy", so a Signal with
\* exactly the three tags is "declining" with score 60 and grade B.
C6_Score70PlusTrend ==
    \A i \in CallIds :
        ThreeRulesFired(Call(i)) =>
            LET v     == Call(i).value
                bonus == TrendBonus(Call(i).frame.trend)
            IN /\ Emitted(Call(i))
               /\ v.score = 70 + bonus
               /\ TagRules(v.signals) = IF bonus > 0
                                        THEN Append(ThreeTags, v.trend_strength)
                                        ELSE ThreeTags
               /\ v.signal_quality = IF v.score >= 70 THEN "A" ELSE "B"
               /\ ( /\ probe.config.trend_confirm_days = 3
                    /\ TagRules(v.signals) = ThreeTags )
                    => /\ v.trend_strength = "declining"
                       /\ v.score = 60
                       /\ v.signal_quality = "B"

\* the default configuration, the three rules fired, the Signal has score 60
C6_Witness ==
    \E i \in CallIds :
        /\ probe.config = _default_config
        /\ ThreeRulesFired(Call(i))
        /\ Emitted(Call(i))
        /\ TagRules(Call(i).value.signals) = ThreeTags
        /\ Call(i).value.score = 60
        /\ Call(i).value.signal_quality = "B"

WithoutTimestamp(v) ==
    IF v = None THEN None ELSE [v EXCEPT !.timestamp = 0]

IndicatorPeriods == {12, 20, 26, 50}

\* C8: when the data is missing or has fewer than 60 closes, analyze_stock
\* returns no signal and every indicator returns an empty result for a series
\* shorter than its period; analyze_stock never raises, whatever the
\* market-data collaborator returned.
C8_ShortDataNoSignal ==
    /\ \A i \in CallIds :
           /\ Call(i).kind = "return"
           /\ (~ProbeHasData \/ Len(ProbeCloses) < 60) => ~Emitted(Call(i))
    /\ ProbeHasData =>
           LET closes == ProbeCloses
               prices == ToFP(closes)
               macd   == calculate_macd(prices)
           IN /\ \A period \in IndicatorPeriods :
                     Len(closes) < period =>
                         /\ calculate_sma(prices, period) = <<>>
                         /\ calculate_ema(prices, period) = <<>>
              /\ Len(closes) < 26 =>
                     /\ macd.macd_line = <<>>
                     /\ macd.signal_line = <<>>
                     /\ macd.histogram = <<>>
              /\ Len(closes) < 14 => calculate_rsi(closes, 14) = <<>>
              /\ Len(closes) < 2 => calculate_obv(closes, closes) = <<>>

\* a 59-bar series was analysed: no signal, and the 50-bar average exists
\* while the call stopped at the length test
C8_Witness ==
    /\ Len(calls) >= 1
    /\ ProbeHasData
    /\ Len(ProbeCloses) = 59
    /\ Call(1).frame.stage = "short"
    /\ Call(1).kind = "return"
    /\ ~Emitted(Call(1))

----------------------------------------------------------------------------
(* The database (data_store.py).  A table is the sequence of its rows in   *)
(* insertion order, so a row's id is its position.  A nullable column      *)
(* holds None (NULL) or Some(x).  A timestamp is [date, seq]: the day and  *)
(* the rank of the call among the calls on the database.                   *)

Some(x) == [v |-> x]

\* dict.get(key, default)
Get(d, key, default) == IF key \in DOMAIN d THEN d[key] ELSE default

\* json.dumps of a list of strings, as tokens: brackets, commas and one
\* string token per element
RECURSIVE json_dumps_items(_)
json_dumps_items(list) ==
    IF list = <<>> THEN <<>>
    ELSE IF Len(list) = 1 THEN <<[str |-> list[1]]>>
    ELSE <<[str |-> list[1]], [tok |-> ","]>> \o json_dumps_items(Tail(list))

json_dumps(list) == <<[tok |-> "["]>> \o json_dumps_items(list) \o <<[tok |-> "]"]>>

\* json.loads of such a text: the string tokens between the brackets
json_loads(text) ==
    LET inner == SubSeq(text, 2, Len(text) - 1)
        items == SelectSeq(inner, LAMBDA t : t # [tok |-> ","])
    IN [k \in 1..Len(items) |-> items[k].str]

\* the row save_screening_results inserts into screening_results
ScreeningRow(id, result, scan_time) ==
    [id        |-> id,
     scan_time |-> scan_time,
     symbol    |-> result.symbol,
     price     |-> Get(result, "price", 0),
     signals   |-> json_dumps(Get(result, "signals", <<>>)),
     score     |-> Get(result, "score", 0)]

\* variant: the tracking row is created already judged a failure
TrackingRowJudged(id, screening_id, result, scan_time) ==
    [id |-> id, screening_id |-> screening_id, symbol |-> result.symbol,
     signal_date |-> scan_time.date, signal_price |-> Get(result, "price", 0),
     signal_score |-> Get(result, "score", 0),
     day1_price |-> None, day1_change |-> None, day3_price |-> None,
     day3_change |-> None, day5_price |-> None, day5_change |-> None,
     day7_price |-> None, day7_change |-> None, max_gain |-> None,
     max_loss |-> None, is_successful |-> Some(0), updated_at |-> None]

\* the row save_screening_results inserts into performance_tracking: the
\* columns the INSERT leaves out are NULL
TrackingRow(id, screening_id, result, scan_time) ==
    [id |-> id, screening_id |-> screening_id, symbol |-> result.symbol,
     signal_date |-> scan_time.date, signal_price |-> Get(result, "price", 0),
     signal_score |-> Get(result, "score", 0),
     day1_price |-> None, day1_change |-> None, day3_price |-> None,
     day3_change |-> None, day5_price |-> None, day5_change |-> None,
     day7_price |-> None, day7_change |-> None, max_gain |-> None,
     max_loss |-> None, is_successful |-> None, updated_at |-> None]

\* the loop of save_screening_results inside its transaction: txn is
\* [kind, signals, tracking]; result['symbol'] of a result without that key
\* raises KeyError
RECURSIVE SaveLoop(_, _, _)
SaveLoop(txn, batch, scan_time) ==
    IF batch = <<>> THEN txn
    ELSE IF "symbol" \notin DOMAIN Head(batch)
    THEN [txn EXCEPT !.kind = "raise"]
    ELSE LET screening_id == Len(txn.signals) + 1
         IN SaveLoop([txn EXCEPT
                        !.signals = Append(@, ScreeningRow(screening_id, Head(batch),
                                                           scan_time)),
                        !.tracking = Append(@, TrackingRow(Len(txn.tracking) + 1,
                                                           screening_id, Head(batch),
                                                           scan_time))],
                     Tail(batch), scan_time)

\* DataStore.save_screening_results of the batch on the tables db =
\* [signals, tracking]:
\* [kind, value, signals, tracking].  The rows are committed after the loop;
\* when the loop raises, the transaction is never committed.
save_screening_results(db, batch, scan_time) ==
    IF batch = <<>>
    THEN [kind |-> "return", value |-> 0, signals |-> db.signals,
          tracking |-> db.tracking]
    ELSE LET txn == SaveLoop([kind |-> "return", signals |-> db.signals,
                              tracking |-> db.tracking], batch, scan_time)
         IN IF txn.kind = "raise"
            THEN [kind |-> "raise", value |-> 0, signals |-> db.signals,
                  tracking |-> db.tracking]
            ELSE [kind |-> "return", value |-> Len(batch),
                  signals |-> txn.signals, tracking |-> txn.tracking]

\* the tables as a call finds them
Database == [signals |-> screening_results, tracking |-> performance_tracking]

\* WHERE DATE(scan_time) = ?
RowsOn(rows, date) == SelectSeq(rows, LAMBDA r : r.scan_time.date = date)

\* the dict get_results_by_date builds from a row of its query
ResultOfRow(row, score) ==
    [symbol    |-> row.symbol,
     price     |-> row.price,
     signals   |-> IF row.signals # <<>> THEN json_loads(row.signals) ELSE <<>>,
     score     |-> score,
     scan_time |-> row.scan_time]

\* DataStore.get_results_by_date: every list the query may return.  There
\* is one row per symbol (GROUP BY symbol) carrying MAX(score) and the other
\* columns of a row of the group that has that score; ORDER BY score DESC
\* fixes no order among equal scores.
get_results_by_date(rows, date) ==
    LET on        == RowsOn(rows, date)
        groups    == {on[k].symbol : k \in 1..Len(on)}
        n         == Cardinality(groups)
        Group(g)  == {k \in 1..Len(on) : on[k].symbol = g}
        MaxScore(g) ==
            CHOOSE m \in {on[k].score : k \in Group(g)} :
                \A k \in Group(g) : on[k].score <= m
        Picks     == {p \in [1..n -> 1..Len(on)] :
                        /\ \A i \in 1..n : on[p[i]].score = MaxScore(on[p[i]].symbol)
                        /\ \A i, j \in 1..n : i # j => on[p[i]].symbol # on[p[j]].symbol
                        /\ \A i \in 1..(n - 1) : on[p[i]].score >= on[p[i + 1]].score}
    IN {[i \in 1..n |-> ResultOfRow(on[p[i]], MaxScore(on[p[i]].symbol))] : p \in Picks}

----------------------------------------------------------------------------
(* The outcome tracker (data_store.py, PerformanceTracker).  Dates are day *)
(* numbers and every day is a session.  A bar value is Some(price) or None *)
(* (a null in the provider's list).  Percent changes are kept to the whole *)
(* percent below (integer division), which decides the >= 3 and >= 5       *)
(* comparisons exactly as the quotient does.                               *)

\* Python truthiness of a list entry: None and 0 are falsy
Truthy(x) == x # None /\ x.v # 0

\* 0-based indexing of a Python list
At(list, i) == list[i + 1]

\* ((price - signal_price) / signal_price) * 100
Pct(price, signal_price) == ((price - signal_price) * 100) \div signal_price

\* the provider's daily bar of a symbol: three price paths around 100
Bar(symbol, day) ==
    CASE symbol = <<"A", "A", "A">> ->
             [close |-> IF day = 0 THEN 100 ELSE 101,
              high  |-> IF day = 2 THEN 106 ELSE 102,
              low   |-> 99]
      [] symbol = <<"B", "B", "B">> ->
             [close |-> IF day < 4 THEN 100 + day ELSE 104,
              high  |-> IF day < 4 THEN 100 + day ELSE 104,
              low   |-> 98]
      [] OTHER ->
             [close |-> 101, high |-> 102, low |-> 95]

\* what call_api('YahooFinance/get_stock_chart', range '1mo') may answer on
\* day now: nothing, an exception, a chart without bars, the bars of days
\* 0..now, those bars with the bar of one day null, or a quote that
\* carries closes only
TrackerResponses(symbol, now) ==
    {[kind |-> "none"], [kind |-> "raise"],
     [kind |-> "ok", timestamp |-> <<>>, close |-> <<>>, high |-> <<>>, low |-> <<>>]}
    \cup
    {[kind      |-> "ok",
      timestamp |-> [i \in 1..(now + 1) |-> i - 1],
      close     |-> [i \in 1..(now + 1) |-> IF i - 1 = hole THEN None ELSE Some(Bar(symbol, i - 1).close)],
      high      |-> [i \in 1..(now + 1) |-> IF i - 1 = hole THEN None ELSE Some(Bar(symbol, i - 1).high)],
      low       |-> [i \in 1..(now + 1) |-> IF i - 1 = hole THEN None ELSE Some(Bar(symbol, i - 1).low)]]
        : hole \in -1..now}
    \cup
    {[kind      |-> "ok",
      timestamp |-> [i \in 1..(now + 1) |-> i - 1],
      close     |-> [i \in 1..(now + 1) |-> Some(Bar(symbol, i - 1).close)],
      high      |-> <<>>,
      low       |-> <<>>]}

\* the records an update pass works on: signal_date >= cutoff_date AND
\* (day7_price IS NULL OR updated_at < DATE('now', '-1 day')); a comparison
\* with a NULL updated_at is not true
get_pending_tracking(rows, now, days_ago) ==
    SelectSeq(rows, LAMBDA t :
        /\ t.signal_date >= now - days_ago
        /\ \/ t.day7_price = None
           \/ (t.updated_at # None /\ t.updated_at.v < now - 1))

\* variant of COALESCE that lets a NULL argument through
Overwrite(new, old) == new

\* COALESCE(?, column)
COALESCE(new, old) == IF new # None THEN new ELSE old

\* data.get(key): None when the key is absent
DataGet(data, key) == IF key \in DOMAIN data THEN Some(data[key]) ELSE None

\* update_tracking: the UPDATE of the row with this id
update_tracking(rows, tracking_id, data, now) ==
    [k \in 1..Len(rows) |->
        IF rows[k].id # tracking_id THEN rows[k]
        ELSE [rows[k] EXCEPT
                 !.day1_price    = COALESCE(DataGet(data, "day1_price"), @),
                 !.day1_change   = COALESCE(DataGet(data, "day1_change"), @),
                 !.day3_price    = COALESCE(DataGet(data, "day3_price"), @),
                 !.day3_change   = COALESCE(DataGet(data, "day3_change"), @),
                 !.day5_price    = COALESCE(DataGet(data, "day5_price"), @),
                 !.day5_change   = COALESCE(DataGet(data, "day5_change"), @),
                 !.day7_price    = COALESCE(DataGet(data, "day7_price"), @),
                 !.day7_change   = COALESCE(DataGet(data, "day7_change"), @),
                 !.max_gain      = COALESCE(DataGet(data, "max_gain"), @),
                 !.max_loss      = COALESCE(DataGet(data, "max_loss"), @),
                 !.is_successful = DataGet(data, "is_successful"),
                 !.updated_at    = Some(now)]]

NoData == [key \in {} |-> 0]

\* the Day N block: both fields when the close at signal_idx + N exists and
\* is truthy
DayFields(closes, signal_idx, n, signal_price, price_key, change_key) ==
    IF signal_idx + n < Len(closes) /\ Truthy(At(closes, signal_idx + n))
    THEN (price_key :> At(closes, signal_idx + n).v)
         @@ (change_key :> Pct(At(closes, signal_idx + n).v, signal_price))
    ELSE NoData

\* [x for x in list[signal_idx:end_idx] if x]
PeriodValues(list, signal_idx, end_idx) ==
    {At(list, i).v : i \in {j \in signal_idx..(end_idx - 1) : j < Len(list) /\ Truthy(At(list, j))}}

SetMax(S) == CHOOSE m \in S : \A x \in S : x <= m
SetMin(S) == CHOOSE m \in S : \A x \in S : m <= x

\* the is_successful entry: from day7_change when the pass has it, else
\* from max_gain when the pass has it, else no entry
Judged(data) ==
    IF "day7_change" \in DOMAIN data
    THEN ("is_successful" :> (IF data["day7_change"] >= 3 THEN 1 ELSE 0))
    ELSE IF "max_gain" \in DOMAIN data
         THEN ("is_successful" :> (IF data["max_gain"] >= 5 THEN 1 ELSE 0))
         ELSE NoData

\* min(signal_idx + 8, len(closes))
EndIdx(closes, signal_idx) ==
    IF signal_idx + 8 < Len(closes) THEN signal_idx + 8 ELSE Len(closes)

\* the data dictionary _update_single_tracking builds from a chart
TrackingData(chart, signal_idx, signal_price) ==
    LET closes  == chart.close
        highs   == PeriodValues(chart.high, signal_idx, EndIdx(closes, signal_idx))
        lows    == PeriodValues(chart.low, signal_idx, EndIdx(closes, signal_idx))
        fields  == DayFields(closes, signal_idx, 1, signal_price, "day1_price", "day1_change")
                   @@ DayFields(closes, signal_idx, 3, signal_price, "day3_price", "day3_change")
                   @@ DayFields(closes, signal_idx, 5, signal_price, "day5_price", "day5_change")
                   @@ DayFields(closes, signal_idx, 7, signal_price, "day7_price", "day7_change")
                   @@ (IF highs # {} THEN "max_gain" :> Pct(SetMax(highs), signal_price) ELSE NoData)
                   @@ (IF lows # {} THEN "max_loss" :> Pct(SetMin(lows), signal_price) ELSE NoData)
    IN fields @@ Judged(fields)

\* whether the chart makes _update_single_tracking compute a percentage
Divides(chart, signal_idx) ==
    \/ \E n \in {1, 3, 5, 7} : /\ signal_idx + n < Len(chart.close)
                               /\ Truthy(At(chart.close, signal_idx + n))
    \/ PeriodValues(chart.high, signal_idx, EndIdx(chart.close, signal_idx)) # {}
    \/ PeriodValues(chart.low, signal_idx, EndIdx(chart.close, signal_idx)) # {}

\* _update_single_tracking on one pending record: the table afterwards,
\* whether update_tracking was called and with which data, and the
\* exception that leaves the method ("none" when it returns).  The log line
\* after the update formats data.get('day7_change', 'N/A') with :.2f, which
\* raises ValueError for the string.
Skipped(rows, error) == [tracking |-> rows, updated |-> FALSE, data |-> NoData, error |-> error]

Updated(rows, id, data, now) ==
    [tracking |-> update_tracking(rows, id, data, now), updated |-> TRUE, data |-> data,
     error |-> IF "day7_change" \in DOMAIN data THEN "none" ELSE "ValueError"]

_update_single_tracking(rows, record, chart, now) ==
    LET later == {i \in 0..(Len(chart.timestamp) - 1) :
                     At(chart.timestamp, i) >= record.signal_date}
        signal_idx == SetMin(later)
    IN CASE chart.kind = "raise" -> Skipped(rows, "ApiError")
         [] chart.kind = "none" -> Skipped(rows, "none")
         [] chart.timestamp = <<>> \/ chart.close = <<>> -> Skipped(rows, "none")
         [] later = {} -> Skipped(rows, "none")
         [] record.signal_price = 0 /\ Divides(chart, signal_idx) ->
                Skipped(rows, "ZeroDivisionError")
         [] OTHER ->
                Updated(rows, record.id,
                        TrackingData(chart, signal_idx, record.signal_price), now)

\* one turn of the loop of update_all_tracking: an exception is logged and
\* the loop goes on; acc is [tracking, log]
Logged(acc, record, out) ==
    [tracking |-> out.tracking,
     log      |-> Append(acc.log, [id |-> record.id, updated |-> out.updated,
                                   data |-> out.data, error |-> out.error])]

\* the loop over the pending records: charts[k] is what the provider
\* answers for the k-th of them
RECURSIVE TrackingLoop(_, _, _, _, _)
TrackingLoop(acc, pending, charts, k, now) ==
    IF k > Len(pending) THEN acc
    ELSE TrackingLoop(Logged(acc, pending[k],
                             _update_single_tracking(acc.tracking, pending[k], charts[k], now)),
                      pending, charts, k + 1, now)

LookbackDays == 14

\* update_all_tracking: [tracking, log]
update_all_tracking(rows, charts, now) ==
    TrackingLoop([tracking |-> rows, log |-> <<>>],
                 get_pending_tracking(rows, now, LookbackDays), charts, 1, now)

\* the answers the provider may give to the calls of one pass, from the
\* k-th pending record on
RECURSIVE PassResponses(_, _, _)
PassResponses(pending, k, now) ==
    IF k > Len(pending) THEN {<<>>}
    ELSE {<<r>> \o rest : r \in TrackerResponses(pending[k].symbol, now),
                          rest \in PassResponses(pending, k + 1, now)}

----------------------------------------------------------------------------
(* The weekly adaptation (weekly_analysis.py).  Signal types are written   *)
(* in Latin letters: "MA-jincha" is the type of the MA golden cross.       *)

\* the weights auto_optimize_model assumes when config.json has none
LegacyWeights ==
    [ma_golden_cross |-> 25, macd_golden_cross |-> 20, rsi_bullish |-> 15,
     volume_surge |-> 15, price_breakout |-> 15, obv_confirm |-> 10]

\* signal_to_weight.get(target): "" stands for None
signal_to_weight(target) ==
    CASE target = "MA-jincha"             -> "ma_golden_cross"
      [] target = "MACD-jincha"           -> "macd_golden_cross"
      [] target = "MACD-duotou"           -> "macd_golden_cross"
      [] target = "RSI-fantan"            -> "rsi_bullish"
      [] target = "RSI-jiankang"          -> "rsi_bullish"
      [] target = "chengjiaoliang-fangda" -> "volume_surge"
      [] target = "jiejin-xingao"         -> "price_breakout"
      [] target = "jiage-tupo"            -> "price_breakout"
      [] target = "OBV-queren"            -> "obv_confirm"
      [] OTHER                            -> ""

Max(a, b) == IF a > b THEN a ELSE b
Min(a, b) == IF a < b THEN a ELSE b

\* one pass of the loop over the suggestions: acc is [weights, applied,
\* skipped]
ApplySuggestion(acc, suggestion) ==
    LET weight_key == signal_to_weight(suggestion.target)
        known      == weight_key # "" /\ weight_key \in DOMAIN acc.weights
        old_value  == acc.weights[weight_key]
        Set(new_value) ==
            [acc EXCEPT !.weights = [@ EXCEPT ![weight_key] = new_value],
                        !.applied = Append(@, [param |-> weight_key,
                                               old   |-> old_value,
                                               new   |-> new_value])]
    IN CASE suggestion.type = "reduce_weight" ->
                IF known THEN Set(Max(5, old_value - 5)) ELSE acc
         [] suggestion.type = "increase_weight" ->
                IF known THEN Set(Min(35, old_value + 5)) ELSE acc
         [] suggestion.type = "review" ->
                [acc EXCEPT !.skipped = Append(@, suggestion.target)]
         [] OTHER -> acc

RECURSIVE ApplySuggestions(_, _)
ApplySuggestions(acc, suggestions) ==
    IF suggestions = <<>> THEN acc
    ELSE ApplySuggestions(ApplySuggestion(acc, Head(suggestions)), Tail(suggestions))

\* variant that starts from the built-in weights whatever config.json holds
auto_optimize_from_defaults(config, analysis) ==
    ApplySuggestions([weights |-> LegacyWeights, applied |-> <<>>, skipped |-> <<>>],
                     analysis.optimization_suggestions)

\* auto_optimize_model up to the test of adjustments['applied']
auto_optimize_model(config, analysis) ==
    LET current_weights ==
            IF config.weights # None THEN config.weights ELSE LegacyWeights
    IN ApplySuggestions([weights |-> current_weights, applied |-> <<>>,
                         skipped |-> <<>>],
                        analysis.optimization_suggestions)

\* variant that keeps the latest row only
save_latest_model_params(history, params, accuracy_rate, notes, today) ==
    <<[effective_date |-> today, params |-> params,
       accuracy_rate |-> accuracy_rate, notes |-> notes]>>

\* DataStore.save_model_params: one more row, never an update
save_model_params(history, params, accuracy_rate, notes, today) ==
    Append(history, [effective_date |-> today, params |-> params,
                     accuracy_rate |-> accuracy_rate, notes |-> notes])

\* adaptation cycles a run of the model takes
MaxCycles == 1

Suggest(type, target) == [type |-> type, target |-> target]

\* what analyze_week may hand to the optimizer
Analyses ==
    {[optimization_suggestions |-> sg, accuracy_rate |-> 50] :
        sg \in { <<>>,
                 <<Suggest("reduce_weight", "MA-jincha")>>,
                 <<Suggest("increase_weight", "chengjiaoliang-fangda"),
                   Suggest("review", "model")>>,
                 <<Suggest("reduce_weight", "qita"),
                   Suggest("adjust_threshold", "high_score_threshold")>> }}

\* run_weekly_analysis: WeeklyAnalyzer(CONFIG_PATH).run(): the update pass
\* over the pending records, then the optimizer on the analyze_week result,
\* which is any of Analyses
run_weekly_analysis ==
    /\ phase = "idle"
    /\ cycles < MaxCycles
    /\ \E charts \in PassResponses(get_pending_tracking(performance_tracking, clock, LookbackDays), 1, clock) :
           /\ performance_tracking' = update_all_tracking(performance_tracking, charts, clock).tracking
           /\ op' = [name |-> "update_all_tracking", seq |-> op.seq + 1, date |-> clock,
                     log |-> update_all_tracking(performance_tracking, charts, clock).log]
    /\ \E analysis \in Analyses :
           LET out == auto_optimize_model(config_file, analysis)
           IN /\ adjustments' = [applied |-> out.applied, skipped |-> out.skipped]
              /\ IF out.applied # <<>>
                 THEN /\ config_file' = [config_file EXCEPT !.weights = out.weights]
                      /\ model_params_history' =
                             save_model_params(model_params_history, out.weights,
                                               analysis.accuracy_rate,
                                               Len(out.applied), clock)
                 ELSE UNCHANGED <<config_file, model_params_history>>
    /\ cycles' = cycles + 1
    /\ UNCHANGED <<clock, scorer_vars, scan_vars, out_vars, screening_results>>

----------------------------------------------------------------------------
(* The scans (scheduler.py) and screen_stocks with its worker pool.        *)

AAA == <<"A", "A", "A">>
BBB == <<"B", "B", "B">>
CCC == <<"C", "C", "C">>

\* lists/all_priority_stocks.txt and lists/all_us_stocks.txt
PriorityList == <<AAA, BBB>>
ExtendedList == <<AAA, BBB, CCC>>

\* the chart the market-data service holds for a symbol
Chart(symbol) ==
    CASE symbol = AAA -> Cross
      [] symbol = BBB -> Shape(1, 1, 7, 3, 0)
      [] OTHER        -> Shape(-1, 1, 7, 3, 0)

\* what a call of the service may answer
Responses == {"ok", "quiet", "none", "raise"}

\* the data a call of the service returns for a symbol: its chart, or, on
\* a quiet day, sixty flat sessions, which the scorer rates below min_score
ChartOn(symbol, r) ==
    IF r = "quiet" THEN Flat ELSE [Chart(symbol) EXCEPT !.resp = r]

Tasks == 1..Len(symbols)

\* results.sort(key=lambda x: x.score, reverse=True): stable, so equal
\* scores keep their order
RECURSIVE SortByScore(_)
SortByScore(list) ==
    IF Len(list) <= 1 THEN list
    ELSE LET sorted == SortByScore(SubSeq(list, 1, Len(list) - 1))
             x      == list[Len(list)]
             k      == Cardinality({j \in 1..Len(sorted) : sorted[j].score >= x.score})
         IN SubSeq(sorted, 1, k) \o <<x>> \o SubSeq(sorted, k + 1, Len(sorted))

\* scans a run of the model takes
MaxScans == 1

\* run_priority_scan / run_extended_scan up to the submission of every
\* symbol to the pool: load_config, the symbol list, the screener built
\* without a config, the counters reset
StartScan(kind) ==
    /\ phase = "idle"
    /\ scans < MaxScans
    /\ scans' = scans + 1
    /\ phase' = "screening"
    /\ scan_type' = kind
    /\ scan_config' = config_file
    /\ symbols' = IF kind = "priority" THEN PriorityList ELSE ExtendedList
    /\ screener_config' = _default_config
    /\ max_workers' = IF kind = "priority" THEN 15 ELSE 20
    /\ stats' = [start_time |-> clock, total_stocks |-> Len(symbols')]
    /\ processed_count' = 0
    /\ failed_count' = 0
    /\ results' = <<>>
    /\ task_pc' = [i \in 1..Len(symbols') |-> "queued"]
    /\ response' = [i \in 1..Len(symbols') |-> "pending"]
    /\ future' = [i \in 1..Len(symbols') |-> [state |-> "pending", result |-> None]]
    /\ loaded' = [i \in 1..Len(symbols') |-> 0]
    /\ lock' = 0
    /\ UNCHANGED <<clock, scorer_vars, store_vars, db_vars, runtime_history,
                   last_report, sent>>

\* analyze_stock depends on its arguments only: its value for the three
\* charts under the default configuration at clock 0 is computed once
DefaultAnalysis == [s \in {AAA, BBB, CCC} |-> analyze_stock(s, [Chart(s) EXCEPT !.resp = "ok"], _default_config, 0)]

QuietAnalysis == [s \in {AAA, BBB, CCC} |-> analyze_stock(s, Flat, _default_config, 0)]

AnalysisOf(symbol, r, config, now) ==
    IF r = "ok" /\ config = _default_config /\ now = 0
    THEN DefaultAnalysis[symbol]
    ELSE IF r = "quiet" /\ config = _default_config /\ now = 0
    THEN QuietAnalysis[symbol]
    ELSE analyze_stock(symbol, ChartOn(symbol, r), config, now)

Running == {i \in Tasks : task_pc[i] \notin {"queued", "done", "collected"}}

\* the task function up to the lock: result = self.analyze_stock(symbol);
\* out is how that call ended
Analysed(i, r, out) ==
    /\ response' = [response EXCEPT ![i] = r]
    /\ IF out.kind = "raise"
       THEN /\ future' = [future EXCEPT ![i] = [state |-> "raised", result |-> None]]
            /\ task_pc' = [task_pc EXCEPT ![i] = "done"]
       ELSE /\ future' = [future EXCEPT ![i] = [state  |-> "running",
                                                result |-> out.value]]
            /\ task_pc' = [task_pc EXCEPT ![i] = "acquire"]

\* a pool thread takes the next queued task and runs analyze_stock
Run(i) ==
    /\ phase = "screening"
    /\ task_pc[i] = "queued"
    /\ \A j \in 1..(i - 1) : task_pc[j] # "queued"
    /\ Cardinality(Running) < max_workers
    /\ \E r \in Responses :
           Analysed(i, r, AnalysisOf(symbols[i], r, screener_config, clock))
    /\ UNCHANGED <<clock, scorer_vars, store_vars, db_vars, out_vars, phase, scan_type, scan_config,
                   screener_config, max_workers, symbols, loaded, lock,
                   processed_count, failed_count, results, stats>>

scan_frame ==
    <<clock, scorer_vars, store_vars, db_vars, out_vars, phase, scan_type,
      scan_config,
      screener_config, max_workers, symbols, response, stats>>

\* variant: the counters are updated without taking the lock
AcquireNoLock(i) ==
    /\ phase = "screening"
    /\ task_pc[i] = "acquire"
    /\ task_pc' = [task_pc EXCEPT ![i] = "load_processed"]
    /\ UNCHANGED <<scan_frame, future, loaded, lock, processed_count,
                   failed_count, results>>

\* _analyze_with_tracking: with self._lock
Acquire(i) ==
    /\ phase = "screening"
    /\ task_pc[i] = "acquire"
    /\ lock = 0
    /\ lock' = i
    /\ task_pc' = [task_pc EXCEPT ![i] = "load_processed"]
    /\ UNCHANGED <<scan_frame, future, loaded, processed_count, failed_count,
                   results>>

\* self._processed_count += 1: the read ...
LoadProcessed(i) ==
    /\ phase = "screening"
    /\ task_pc[i] = "load_processed"
    /\ loaded' = [loaded EXCEPT ![i] = processed_count]
    /\ task_pc' = [task_pc EXCEPT ![i] = "store_processed"]
    /\ UNCHANGED <<scan_frame, future, lock, processed_count, failed_count,
                   results>>

\* ... and the write; then "if result is None"
StoreProcessed(i) ==
    /\ phase = "screening"
    /\ task_pc[i] = "store_processed"
    /\ processed_count' = loaded[i] + 1
    /\ task_pc' = [task_pc EXCEPT ![i] = IF future[i].result = None
                                         THEN "load_failed" ELSE "release"]
    /\ UNCHANGED <<scan_frame, future, loaded, lock, failed_count, results>>

\* self._failed_count += 1: the read ...
LoadFailed(i) ==
    /\ phase = "screening"
    /\ task_pc[i] = "load_failed"
    /\ loaded' = [loaded EXCEPT ![i] = failed_count]
    /\ task_pc' = [task_pc EXCEPT ![i] = "store_failed"]
    /\ UNCHANGED <<scan_frame, future, lock, processed_count, failed_count,
                   results>>

\* ... and the write
StoreFailed(i) ==
    /\ phase = "screening"
    /\ task_pc[i] = "store_failed"
    /\ failed_count' = loaded[i] + 1
    /\ task_pc' = [task_pc EXCEPT ![i] = "release"]
    /\ UNCHANGED <<scan_frame, future, loaded, lock, processed_count, results>>

\* the with block ends and the task returns its result
Release(i) ==
    /\ phase = "screening"
    /\ task_pc[i] = "release"
    /\ lock' = 0
    /\ future' = [future EXCEPT ![i].state = "finished"]
    /\ task_pc' = [task_pc EXCEPT ![i] = "done"]
    /\ UNCHANGED <<scan_frame, loaded, processed_count, failed_count, results>>

\* the as_completed loop takes a completed future: its result joins the
\* list when there is one, an exception is passed over
Collect(i) ==
    /\ phase = "screening"
    /\ task_pc[i] = "done"
    /\ task_pc' = [task_pc EXCEPT ![i] = "collected"]
    /\ results' = IF future[i].state = "finished" /\ future[i].result # None
                  THEN Append(results, future[i].result)
                  ELSE results
    /\ UNCHANGED <<scan_frame, future, loaded, lock, processed_count,
                   failed_count>>

\* the scheduler's long-run ceiling, in seconds
LongRunSeconds == 300

\* how long a scan may have taken when it ends: time.time() - start_time
Durations == {LongRunSeconds, LongRunSeconds + 1}

\* the rest of screen_stocks: the statistics and the sort
ScreenReturn ==
    /\ phase = "screening"
    /\ \A i \in Tasks : task_pc[i] = "collected"
    /\ phase' = "returned"
    /\ \E seconds \in Durations :
       stats' = [start_time        |-> stats.start_time,
                 total_stocks      |-> stats.total_stocks,
                 end_time          |-> clock,
                 processed_stocks  |-> processed_count,
                 successful_stocks |-> processed_count - failed_count,
                 failed_stocks     |-> failed_count,
                 signals_found     |-> Len(results),
                 high_score_count  |->
                     Cardinality({k \in 1..Len(results) : results[k].score >= 70}),
                 total_runtime_seconds |-> seconds]
    /\ results' = SortByScore(results)
    /\ UNCHANGED <<clock, scorer_vars, store_vars, db_vars, out_vars, scan_type, scan_config,
                   screener_config, max_workers, symbols, task_pc, response,
                   future, loaded, lock, processed_count, failed_count>>

\* the dict a scan saves for a signal (symbol, price, signals and score are
\* the keys the database keeps track of here)
ResultDict(r) ==
    [symbol |-> r.symbol, price |-> r.current_price, signals |-> r.signals,
     score |-> r.score]

\* send_telegram_notification: the message joins those sent when Telegram
\* is enabled in the scan's config
send_telegram_notification(outbox, message, config) ==
    IF config.telegram THEN Append(outbox, message) ELSE outbox

\* the notifications of a scan's tail: the completion report, and after a
\* priority scan the warning when the scan took too long
Notifications(kind, seconds, config) ==
    LET reported == send_telegram_notification(<<>>, "report", config)
    IN IF kind = "priority" /\ seconds > LongRunSeconds
       THEN send_telegram_notification(reported, "warning", config)
       ELSE reported

\* runtime_history.json keeps this many entries
KeepRuns == 100

\* runtime_history[-100:]
LastRuns(history) ==
    IF Len(history) <= KeepRuns THEN history
    ELSE SubSeq(history, Len(history) - KeepRuns + 1, Len(history))

\* the rest of run_priority_scan / run_extended_scan: the results are saved,
\* the report file is written, a priority scan logs its run time, the
\* notifications go out; then the screener and the results go out of scope
FinishScan ==
    /\ phase = "returned"
    /\ IF results # <<>>
       THEN /\ screening_results' =
                   save_screening_results(Database,
                       [k \in 1..Len(results) |-> ResultDict(results[k])],
                       [date |-> clock, seq |-> op.seq + 1]).signals
            /\ performance_tracking' =
                   save_screening_results(Database,
                       [k \in 1..Len(results) |-> ResultDict(results[k])],
                       [date |-> clock, seq |-> op.seq + 1]).tracking
            /\ op' = [name |-> "save_screening_results", seq |-> op.seq + 1,
                      batch |-> [k \in 1..Len(results) |-> ResultDict(results[k])],
                      date |-> clock, kind |-> "return", value |-> Len(results)]
       ELSE UNCHANGED db_vars
    /\ last_report' = [scan_type |-> scan_type, stats |-> stats, results |-> results]
    /\ runtime_history' =
           IF scan_type = "priority"
           THEN LastRuns(Append(runtime_history,
                                [timestamp |-> clock, scan_type |-> scan_type,
                                 stats |-> stats]))
           ELSE runtime_history
    /\ sent' = Notifications(scan_type, stats.total_runtime_seconds, scan_config)
    /\ phase' = "idle"
    /\ scan_type' = "none"
    /\ scan_config' = None
    /\ screener_config' = None
    /\ max_workers' = 0
    /\ symbols' = <<>>
    /\ task_pc' = <<>>
    /\ response' = <<>>
    /\ future' = <<>>
    /\ loaded' = <<>>
    /\ lock' = 0
    /\ processed_count' = 0
    /\ failed_count' = 0
    /\ results' = <<>>
    /\ stats' = None
    /\ UNCHANGED <<clock, scorer_vars, store_vars, scans>>

Init ==
    /\ clock = 0
    /\ probe = [d |-> Flat, config |-> _default_config]
    /\ calls = <<>>
    /\ FreshStore
    /\ EmptyDatabase
    /\ NoOutput
    /\ NoScan

Next ==
    \/ run_weekly_analysis
    \/ \E kind \in {"priority", "extended"} : StartScan(kind)
    \/ \E i \in Tasks : Run(i)
    \/ \E i \in Tasks : Acquire(i)
    \/ \E i \in Tasks : LoadProcessed(i)
    \/ \E i \in Tasks : StoreProcessed(i)
    \/ \E i \in Tasks : LoadFailed(i)
    \/ \E i \in Tasks : StoreFailed(i)
    \/ \E i \in Tasks : Release(i)
    \/ \E i \in Tasks : Collect(i)
    \/ ScreenReturn
    \/ FinishScan

Spec == Init /\ [][Next]_vars

\* the scans on their own, without the weekly job
ScanNext ==
    \/ \E kind \in {"priority", "extended"} : StartScan(kind)
    \/ \E i \in Tasks : Run(i)
    \/ \E i \in Tasks : Acquire(i)
    \/ \E i \in Tasks : LoadProcessed(i)
    \/ \E i \in Tasks : StoreProcessed(i)
    \/ \E i \in Tasks : LoadFailed(i)
    \/ \E i \in Tasks : StoreFailed(i)
    \/ \E i \in Tasks : Release(i)
    \/ \E i \in Tasks : Collect(i)
    \/ ScreenReturn
    \/ FinishScan

ScanSpec == Init /\ [][ScanNext]_vars

----------------------------------------------------------------------------
(* Properties of the scans and of the adaptation.                          *)

\* C1: after an adaptation cycle has applied a weight change, a scan scores
\* with the new weights: while a scan runs, every weight key that config.json
\* and the scan's scorer share has the value config.json holds.
C1_ScanUsesNewWeights ==
    (phase # "idle" /\ config_file.weights # None) =>
        \A key \in DOMAIN config_file.weights \cap DOMAIN screener_config.weights :
            screener_config.weights[key] = config_file.weights[key]

InCriticalSection ==
    {i \in Tasks : task_pc[i] \in {"load_processed", "store_processed",
                                    "load_failed", "store_failed", "release"}}

\* C9: the counter updates exclude one another and none is lost: when
\* screen_stocks returns, processed_stocks is the number of symbols
\* submitted, failed_stocks the number of tasks that returned no signal, and
\* processed_stocks = successful_stocks + failed_stocks.
C9_NoLostIncrement ==
    /\ Cardinality(InCriticalSection) <= 1
    /\ phase = "returned" =>
           /\ stats.processed_stocks = Len(symbols)
           /\ stats.failed_stocks =
                  Cardinality({i \in Tasks : future[i].result = None})
           /\ stats.processed_stocks = stats.successful_stocks + stats.failed_stocks

\* a task is between the read and the write of "+= 1" while another one,
\* its analysis done, waits for the lock
C9_Witness ==
    /\ phase = "screening"
    /\ \E i, j \in Tasks :
           /\ i # j
           /\ task_pc[i] = "store_processed"
           /\ task_pc[j] = "acquire"
           /\ lock = i

\* what each symbol yields when it is analysed on its own
AloneAAA == analyze_stock(AAA, Chart(AAA), _default_config, 0).value
AloneBBB == analyze_stock(BBB, Chart(BBB), _default_config, 0).value
AloneCCC == analyze_stock(CCC, Chart(CCC), _default_config, 0).value

Alone(symbol) ==
    IF screener_config # _default_config
    THEN analyze_stock(symbol, Chart(symbol), screener_config, 0).value
    ELSE CASE symbol = AAA -> AloneAAA
           [] symbol = BBB -> AloneBBB
           [] OTHER        -> AloneCCC

\* C10: when screen_stocks returns, every symbol has been processed and
\* collected; a symbol whose fetch failed or returned nothing has no signal,
\* and every other symbol has the outcome it has when analysed on its own
\* (the timestamp apart); the result list holds exactly the signals.
C10_FailureIsolated ==
    phase = "returned" =>
        /\ stats.processed_stocks = Len(symbols)
        /\ \A i \in Tasks :
               /\ task_pc[i] = "collected"
               /\ future[i].state = "finished"
               /\ response[i] # "ok" => future[i].result = None
               /\ response[i] = "ok" =>
                      WithoutTimestamp(future[i].result)
                          = WithoutTimestamp(Alone(symbols[i]))
        /\ {results[k] : k \in 1..Len(results)}
               = {future[i].result : i \in Tasks} \ {None}

\* a scan returned in which one fetch raised and another symbol's signal is
\* in the result list
C10_Witness ==
    /\ phase = "returned"
    /\ \E i, j \in Tasks :
           /\ response[i] = "raise"
           /\ response[j] = "ok"
           /\ future[j].result # None
           /\ \E k \in 1..Len(results) : results[k] = future[j].result

\* the signals of the finished tasks in the order the symbols were submitted
InSubmissionOrder ==
    LET found == SelectSeq(future, LAMBDA f : f.state = "finished" /\ f.result # None)
    IN [k \in 1..Len(found) |-> found[k].result]

\* C11: the list screen_stocks returns is sorted by non-increasing score and
\* is one ordered list whatever order the workers complete in, signals with
\* equal scores included: it is the list the universe and the data fix, with
\* equal scores in the order of the universe.
C11_SameOrderedList ==
    phase = "returned" =>
        /\ \A k \in 1..(Len(results) - 1) : results[k].score >= results[k + 1].score
        /\ results = SortByScore(InSubmissionOrder)

\* C12: a scan, priority or extended, that took longer than the ceiling of
\* 300 seconds has sent a long-run warning besides its completion report;
\* a scan within the ceiling has sent the report and no warning.
C12_LongRunWarned ==
    last_report # None =>
        /\ \E k \in 1..Len(sent) : sent[k] = "report"
        /\ (\E k \in 1..Len(sent) : sent[k] = "warning")
               <=> last_report.stats.total_runtime_seconds > LongRunSeconds

----------------------------------------------------------------------------
(* The database on its own: batches are saved and the signals of a date    *)
(* are read back, over two days.                                           *)

\* calls on the database a run takes
MaxStoreCalls == 3

\* the last date of a run
MaxDate == 1

Result(symbol, score, signals) ==
    [symbol |-> symbol, price |-> 100, signals |-> signals, score |-> score]

\* what a scan may hand to save_screening_results, plus a batch with a
\* result that lacks its symbol
Batches ==
    { <<>>,
      <<Result(AAA, 60, <<Tag("ma_golden_cross", 0)>>)>>,
      <<Result(AAA, 60, <<Tag("ma_golden_cross", 0), Tag("volume_surge", 27)>>),
        Result(BBB, 60, <<>>)>>,
      <<Result(BBB, 75, <<Tag("macd_golden_cross", 0)>>),
        Result(AAA, 75, <<Tag("breakout_20d", 0)>>)>>,
      <<Result(CCC, 50, <<Tag("obv_confirm", 0)>>), [price |-> 100, score |-> 50]>> }

\* one call of save_screening_results; scan_time is datetime.now()
SaveBatch ==
    /\ op.seq < MaxStoreCalls
    /\ \E batch \in Batches :
           LET out == save_screening_results(Database, batch,
                                             [date |-> clock, seq |-> op.seq + 1])
           IN /\ screening_results' = out.signals
              /\ performance_tracking' = out.tracking
              /\ op' = [name |-> "save_screening_results", seq |-> op.seq + 1,
                        batch |-> batch, date |-> clock, kind |-> out.kind,
                        value |-> out.value]
    /\ UNCHANGED <<clock, scorer_vars, store_vars, scan_vars, out_vars>>

\* one call of get_results_by_date, for today or an earlier date
ReadDate ==
    /\ op.seq < MaxStoreCalls
    /\ \E date \in 0..clock :
           \E value \in get_results_by_date(screening_results, date) :
               op' = [name |-> "get_results_by_date", seq |-> op.seq + 1,
                      date |-> date, kind |-> "return", value |-> value]
    /\ UNCHANGED <<clock, scorer_vars, store_vars, scan_vars, out_vars,
                   screening_results, performance_tracking>>

\* midnight
NextDate ==
    /\ clock < MaxDate
    /\ clock' = clock + 1
    /\ UNCHANGED <<scorer_vars, store_vars, scan_vars, db_vars, out_vars>>

StoreInit == Init

StoreNext == SaveBatch \/ ReadDate \/ NextDate

StoreSpec == StoreInit /\ [][StoreNext]_vars

----------------------------------------------------------------------------
(* Properties of the database.                                             *)

\* the outcome columns of a tracking row
OutcomeFields ==
    {"day1_price", "day1_change", "day3_price", "day3_change", "day5_price",
     "day5_change", "day7_price", "day7_change", "max_gain", "max_loss"}

\* a tracking row as the INSERT of save_screening_results leaves it
Untracked(t) ==
    /\ t.is_successful = None
    /\ \A f \in OutcomeFields : t[f] = None

\* what a call of save_screening_results adds to the tables
SaveStep ==
    LET before == Len(screening_results)
        n      == IF op'.kind = "return" THEN Len(op'.batch) ELSE 0
    IN /\ Len(screening_results') = before + n
       /\ SubSeq(screening_results', 1, before) = screening_results
       /\ SubSeq(performance_tracking', 1, before) = performance_tracking
       /\ \A j \in 1..n :
              LET row == screening_results'[before + j]
                  t   == performance_tracking'[before + j]
              IN /\ row.id = before + j
                 /\ row.symbol = op'.batch[j].symbol
                 /\ row.score = op'.batch[j].score
                 /\ t.screening_id = row.id
                 /\ t.symbol = row.symbol
                 /\ Untracked(t)

\* C13: save_screening_results creates, for every Signal of the batch,
\* exactly one tracking row that references the Signal's row, with
\* is_successful and every day-N, max_gain and max_loss column unset; the
\* batch is committed whole or not at all, so in every committed state there
\* are as many tracking rows as Signal rows, each Signal row referenced once.
C13_OneTrackingPerSignal ==
    [][ /\ Len(performance_tracking') = Len(screening_results')
        /\ \A k \in 1..Len(screening_results') :
               Cardinality({j \in 1..Len(performance_tracking') :
                               performance_tracking'[j].screening_id =
                                   screening_results'[k].id}) = 1
        /\ (op'.seq # op.seq /\ op'.name = "save_screening_results") => SaveStep ]_vars

\* a batch of two was saved after another batch, and a batch that raised
\* half way left the tables as they were
C13_Witness ==
    /\ op.name = "save_screening_results"
    /\ op.kind = "raise"
    /\ Len(op.batch) = 2
    /\ Len(screening_results) = 2
    /\ Len(performance_tracking) = 2
    /\ \A k \in 1..2 : Untracked(performance_tracking[k])

\* symbol, score and tag list of a saved result or of a record read back
Essence(list) ==
    [k \in 1..Len(list) |->
        [symbol  |-> list[k].symbol,
         score   |-> Get(list[k], "score", 0),
         signals |-> Get(list[k], "signals", <<>>)]]

\* C14: saving a batch of N Signals and then reading the signals of that
\* date yields N records with the symbols, scores and tag lists saved, by
\* descending score with equal scores in their saved order, whatever other
\* batches were saved for that date.
C14_RoundTrip ==
    [][ ( /\ op.name = "save_screening_results"
          /\ op.kind = "return"
          /\ op'.name = "get_results_by_date"
          /\ op'.date = op.date )
        => Essence(op'.value) = SortByScore(Essence(op.batch)) ]_vars
----------------------------------------------------------------------------
(* The outcome tracker on its own: a batch of signals saved on day 0 is    *)
(* followed by update passes over the days after it.                       *)

\* the last day of a run
MaxDay == 9

\* how many update passes a run makes
MaxPasses == 3

\* the batches behind the tracked record; the last result has no price, so
\* its signal_price is 0
TrackedBatches ==
    { <<Result(AAA, 60, <<Tag("ma_golden_cross", 0)>>)>>,
      <<Result(BBB, 75, <<Tag("macd_golden_cross", 0)>>)>>,
      <<[symbol |-> CCC, signals |-> <<>>, score |-> 50]>> }

TrackInit ==
    /\ clock = 0
    /\ probe = [d |-> Flat, config |-> _default_config]
    /\ calls = <<>>
    /\ FreshStore
    /\ NoScan
    /\ NoOutput
    /\ \E batch \in TrackedBatches :
           LET out == save_screening_results([signals |-> <<>>, tracking |-> <<>>], batch,
                                             [date |-> 0, seq |-> 1])
           IN /\ screening_results = out.signals
              /\ performance_tracking = out.tracking
              /\ op = [name |-> "save_screening_results", seq |-> 1, batch |-> batch,
                       date |-> 0, kind |-> out.kind, value |-> out.value]

\* run_update_tracking: one pass of update_all_tracking
UpdatePass ==
    /\ op.seq <= MaxPasses
    /\ \E charts \in PassResponses(get_pending_tracking(performance_tracking, clock, LookbackDays), 1, clock) :
           LET out == update_all_tracking(performance_tracking, charts, clock)
           IN /\ performance_tracking' = out.tracking
              /\ op' = [name |-> "update_all_tracking", seq |-> op.seq + 1,
                        date |-> clock, log |-> out.log]
    /\ UNCHANGED <<clock, scorer_vars, store_vars, scan_vars, out_vars, screening_results>>

\* midnight
NextDay ==
    /\ clock < MaxDay
    /\ clock' = clock + 1
    /\ UNCHANGED <<scorer_vars, store_vars, scan_vars, db_vars, out_vars>>

TrackNext == UpdatePass \/ NextDay

TrackSpec == TrackInit /\ [][TrackNext]_vars
----------------------------------------------------------------------------
(* Properties of the outcome tracker.                                      *)

\* the columns an update pass fills through COALESCE
FilledFields ==
    {"day1_price", "day1_change", "day3_price", "day3_change", "day5_price",
     "day5_change", "day7_price", "day7_change", "max_gain", "max_loss"}

DayFieldNames ==
    {"day1_price", "day1_change", "day3_price", "day3_change", "day5_price",
     "day5_change", "day7_price", "day7_change"}

\* pending (no day-N field), partially filled, complete (day 7 present)
Stage(t) ==
    IF t.day7_price # None \/ t.day7_change # None THEN 2
    ELSE IF \E f \in DayFieldNames : t[f] # None THEN 1
    ELSE 0

\* C15: over every step, a day-N price or change, max_gain or max_loss of
\* a tracking record that is set stays set, also when the pass's data
\* lacks it, and the record's stage (pending, partially filled, complete)
\* does not go down.
C15_FieldsStaySet ==
    [][\A k \in 1..Len(performance_tracking) :
          /\ k <= Len(performance_tracking')
          /\ \A f \in FilledFields :
                 performance_tracking[k][f] # None => performance_tracking'[k][f] # None
          /\ Stage(performance_tracking[k]) <= Stage(performance_tracking'[k])]_vars

\* a pass has just updated a record with data lacking a field the record
\* holds from an earlier pass
C15_Witness ==
    /\ op.name = "update_all_tracking"
    /\ \E k \in 1..Len(op.log) :
           /\ op.log[k].updated
           /\ \E f \in FilledFields :
                  /\ f \notin DOMAIN op.log[k].data
                  /\ performance_tracking[op.log[k].id][f] # None
\* C16: over every step, is_successful of a tracking record that is set
\* stays set, and one that is true (1) stays true.
C16_NeverRegresses ==
    [][\A k \in 1..Len(performance_tracking) :
          /\ performance_tracking[k].is_successful # None
                 => performance_tracking'[k].is_successful # None
          /\ performance_tracking[k].is_successful = Some(1)
                 => performance_tracking'[k].is_successful = Some(1)]_vars

\* the success policy applied to the stored columns of a record
PolicyOf(t) ==
    IF t.day7_change # None THEN Some(IF t.day7_change.v >= 3 THEN 1 ELSE 0)
    ELSE IF t.max_gain # None THEN Some(IF t.max_gain.v >= 5 THEN 1 ELSE 0)
    ELSE None

\* C17: in every state, is_successful of each tracking record is what the
\* success policy gives for its stored day7_change and max_gain: by
\* day7_change >= 3 when that is set, else by max_gain >= 5 when that is
\* set, else unset.
C17_SuccessFollowsPolicy ==
    \A k \in 1..Len(performance_tracking) :
        performance_tracking[k].is_successful = PolicyOf(performance_tracking[k])

\* the day-N offsets of a record whose bars do not exist on day now
MissingOffsets(t, now) == {n \in {1, 3, 5, 7} : t.signal_date + n > now}

DayPrice(n) == CASE n = 1 -> "day1_price" [] n = 3 -> "day3_price" [] n = 5 -> "day5_price" [] OTHER -> "day7_price"

DayChange(n) == CASE n = 1 -> "day1_change" [] n = 3 -> "day3_change" [] n = 5 -> "day5_change" [] OTHER -> "day7_change"

\* the three things the pass owes a record with missing bars
LeftUnset(t, now) == \A n \in MissingOffsets(t, now) : t[DayPrice(n)] = None /\ t[DayChange(n)] = None

SelectedAgain(rows, t, now) ==
    \A later \in now..MaxDay :
        t.signal_date >= later - LookbackDays
            => \E k \in 1..Len(get_pending_tracking(rows, later, LookbackDays)) :
                   get_pending_tracking(rows, later, LookbackDays)[k].id = t.id

\* C18: every update pass that updates a record some of whose day-1/3/5/7
\* bars do not exist yet leaves the fields of those offsets unset, logs no
\* error for the record, and leaves the record selected by a next pass on
\* any day on which its signal date is within the lookback window.
C18_MissingBarsNoError ==
    [][(op'.seq # op.seq /\ op'.name = "update_all_tracking") =>
          \A k \in 1..Len(op'.log) :
              (op'.log[k].updated /\ MissingOffsets(performance_tracking[op'.log[k].id], clock) # {})
                  => /\ LeftUnset(performance_tracking'[op'.log[k].id], clock)
                     /\ op'.log[k].error = "none"
                     /\ SelectedAgain(performance_tracking', performance_tracking'[op'.log[k].id], clock)]_vars
----------------------------------------------------------------------------
(* The optimizer on its own: auto_optimize_model applied to a stored       *)
(* configuration, which is whatever config.json holds: no weights, or      *)
(* weights set by hand or by earlier cycles.                               *)

\* how many times a run applies the optimizer
MaxAdaptations == 2

\* the weights config.json may hold
StoredWeights ==
    {None} \cup
    {[ma_golden_cross |-> a, volume_surge |-> b, trend_continuation |-> 15] :
        a \in {3, 5, 8, 25, 45}, b \in {5, 33, 35}}

\* what analyze_week may hand to the optimizer
AdaptAnalyses ==
    Analyses \cup
    {[optimization_suggestions |-> sg, accuracy_rate |-> 50] :
        sg \in { <<Suggest("reduce_weight", "MA-jincha"), Suggest("reduce_weight", "MA-jincha")>>,
                 <<Suggest("reduce_weight", "chengjiaoliang-fangda"),
                   Suggest("increase_weight", "MA-jincha")>>,
                 <<Suggest("reduce_weight", "MACD-jincha")>>,
                 <<Suggest("increase_weight", "chengjiaoliang-fangda"),
                   Suggest("increase_weight", "chengjiaoliang-fangda")>> }}

AdaptInit ==
    /\ clock = 0
    /\ probe = [d |-> Flat, config |-> _default_config]
    /\ calls = <<>>
    /\ \E w \in StoredWeights, t \in BOOLEAN : config_file = [weights |-> w, telegram |-> t]
    /\ model_params_history = <<>>
    /\ adjustments = [applied |-> <<>>, skipped |-> <<>>]
    /\ cycles = 0
    /\ EmptyDatabase
    /\ NoOutput
    /\ NoScan

\* WeeklyAnalyzer(CONFIG_PATH).auto_optimize_model(analysis): the
\* configuration is loaded from config.json, and written back with the new
\* weights when an adjustment was applied
AutoOptimize ==
    /\ cycles < MaxAdaptations
    /\ \E analysis \in AdaptAnalyses :
           LET out == auto_optimize_model(config_file, analysis)
           IN /\ adjustments' = [applied |-> out.applied, skipped |-> out.skipped]
              /\ IF out.applied # <<>>
                 THEN /\ config_file' = [config_file EXCEPT !.weights = out.weights]
                      /\ model_params_history' =
                             save_model_params(model_params_history, out.weights,
                                               analysis.accuracy_rate,
                                               Len(out.applied), clock)
                 ELSE UNCHANGED <<config_file, model_params_history>>
              /\ op' = [name |-> "auto_optimize_model", seq |-> op.seq + 1,
                        suggestions |-> analysis.optimization_suggestions]
    /\ cycles' = cycles + 1
    /\ UNCHANGED <<clock, scorer_vars, scan_vars, out_vars, screening_results,
                   performance_tracking>>

AdaptNext == AutoOptimize

AdaptSpec == AdaptInit /\ [][AdaptNext]_vars

----------------------------------------------------------------------------
(* Properties of the optimizer.                                            *)

OptimizeStep == op'.seq # op.seq /\ op'.name = "auto_optimize_model"

\* C19: when auto_optimize_model is given reduce_weight suggestions only,
\* every adjustment it applies leaves the weight lower than it was, or at 5
\* when it was 5; none leaves it higher.
C19_ReduceNeverRaises ==
    [][(OptimizeStep /\ \A i \in 1..Len(op'.suggestions) :
                            op'.suggestions[i].type = "reduce_weight") =>
          \A i \in 1..Len(adjustments'.applied) :
              /\ adjustments'.applied[i].new <= adjustments'.applied[i].old
              /\ adjustments'.applied[i].old # 5
                     => adjustments'.applied[i].new < adjustments'.applied[i].old]_vars

\* the weight keys config.json holds
StoredKeys(config) == IF config.weights = None THEN {} ELSE DOMAIN config.weights

\* config.get('weights', the built-in weights)
CurrentWeights(config) == IF config.weights = None THEN LegacyWeights ELSE config.weights

Touched(applied) == {applied[i].param : i \in 1..Len(applied)}

\* C20 as stated: over a call of auto_optimize_model, config.json differs
\* only in the weight keys of the applied adjustments: every other weight
\* key is stored before and after with one value or not stored at all, and
\* every other part is unchanged.
C20_OnlyAppliedKeysStored ==
    [][OptimizeStep =>
          /\ \A key \in (StoredKeys(config_file) \cup StoredKeys(config_file')) \ Touched(adjustments'.applied) :
                 /\ key \in StoredKeys(config_file) \cap StoredKeys(config_file')
                 /\ config_file'.weights[key] = config_file.weights[key]
          /\ config_file'.telegram = config_file.telegram]_vars

\* C20 amended: over a call of auto_optimize_model, every weight key other
\* than those of the applied adjustments keeps the value the optimizer read
\* for it (the stored one, or the built-in one when config.json holds no
\* weights), no key appears or disappears among them, and every other part
\* of config.json is unchanged.
C20_OnlyAppliedKeysChange ==
    [][OptimizeStep =>
          /\ DOMAIN CurrentWeights(config_file') = DOMAIN CurrentWeights(config_file)
          /\ \A key \in DOMAIN CurrentWeights(config_file) \ Touched(adjustments'.applied) :
                 CurrentWeights(config_file')[key] = CurrentWeights(config_file)[key]
          /\ DOMAIN config_file' = DOMAIN config_file
          /\ \A part \in DOMAIN config_file \ {"weights"} : config_file'[part] = config_file[part]]_vars

\* the optimizer has just saved stored weights with an adjustment applied
\* and a weight key it did not adjust
C20_Witness ==
    /\ op.name = "auto_optimize_model"
    /\ adjustments.applied # <<>>
    /\ config_file.weights # None
    /\ model_params_history # <<>>
    /\ DOMAIN config_file.weights \ Touched(adjustments.applied) # {}

\* C21: a run of the optimizer that follows a run on the same outcome
\* window, hence with the same suggestions, adjusts nothing: config.json
\* and the weight history are as the first run left them.
C21_SecondRunAdjustsNothing ==
    [][(OptimizeStep /\ op.name = "auto_optimize_model" /\ op'.suggestions = op.suggestions) =>
          /\ config_file' = config_file
          /\ model_params_history' = model_params_history]_vars

\* max(5, old_value - 5) and min(35, old_value + 5)
FloorWeight == 5
CeilingWeight == 35
WeightStep == 5

\* C22: every adjustment auto_optimize_model applies leaves the weight
\* within [5, 35], having moved it by 5 or onto the bound 5 or 35.
C22_AdjustedWithinRange ==
    [][OptimizeStep =>
          \A i \in 1..Len(adjustments'.applied) :
              /\ adjustments'.applied[i].new \in FloorWeight..CeilingWeight
              /\ \/ adjustments'.applied[i].new = adjustments'.applied[i].old - WeightStep
                 \/ adjustments'.applied[i].new = adjustments'.applied[i].old + WeightStep
                 \/ adjustments'.applied[i].new \in {FloorWeight, CeilingWeight}]_vars
----------------------------------------------------------------------------
(* The weekly analysis (weekly_analysis.py, analyze_week) over the tables. *)
(* Averages and accuracies are kept as sums and counts, and every          *)
(* comparison of a quotient with a threshold is made on the products.      *)

\* _extract_signal_type: the first test that matches the tag's text
_extract_signal_type(signal) ==
    LET Has(pattern) == Contains(TagText(signal), pattern)
    IN CASE Has(<<"M", "A">>) /\ Has(<<"jin", "cha">>)                -> "MA-jincha"
         [] Has(<<"M", "A", "C", "D">>) /\ Has(<<"jin", "cha">>)      -> "MACD-jincha"
         [] Has(<<"M", "A", "C", "D">>) /\ Has(<<"duo", "tou">>)      -> "MACD-duotou"
         [] Has(<<"R", "S", "I">>) /\ Has(<<"fan", "tan">>)           -> "RSI-fantan"
         [] Has(<<"R", "S", "I">>) /\ Has(<<"jian", "kang">>)         -> "RSI-jiankang"
         [] Has(<<"cheng", "jiao", "liang">>) /\ Has(<<"fang", "da">>) -> "chengjiaoliang-fangda"
         [] Has(<<"5", "2", "zhou">>) \/ Has(<<"xin", "gao">>)        -> "jiejin-xingao"
         [] Has(<<"tu", "po">>)                                       -> "jiage-tupo"
         [] Has(<<"O", "B", "V">>)                                    -> "OBV-queren"
         [] OTHER                                                     -> "qita"

\* the rows of the JOIN of _analyze_signal_performance, in the order of
\* screening_results: [signals, day7_change, is_successful]
JoinedRows(signals, tracking, week_start, week_end) ==
    LET Match(sr) == {k \in 1..Len(tracking) :
                        /\ tracking[k].screening_id = sr.id
                        /\ tracking[k].day7_change # None}
        kept == SelectSeq(signals, LAMBDA sr :
                    /\ sr.scan_time.date >= week_start
                    /\ sr.scan_time.date <= week_end
                    /\ Match(sr) # {})
    IN [i \in 1..Len(kept) |->
           [signals       |-> json_loads(kept[i].signals),
            day7_change   |-> tracking[CHOOSE k \in Match(kept[i]) : TRUE].day7_change.v,
            is_successful |-> tracking[CHOOSE k \in Match(kept[i]) : TRUE].is_successful]]

\* one entry per signal of every row: [type, ok, ret]
RECURSIVE Observations(_)
Observations(rows) ==
    IF rows = <<>> THEN <<>>
    ELSE [k \in 1..Len(Head(rows).signals) |->
             [type |-> _extract_signal_type(Head(rows).signals[k]),
              ok   |-> Head(rows).is_successful # None /\ Head(rows).is_successful.v # 0,
              ret  |-> Head(rows).day7_change]]
         \o Observations(Tail(rows))

\* the keys of signal_stats in insertion order
RECURSIVE TypesInOrder(_, _)
TypesInOrder(obs, seen) ==
    IF obs = <<>> THEN <<>>
    ELSE IF Head(obs).type \in seen THEN TypesInOrder(Tail(obs), seen)
    ELSE <<Head(obs).type>> \o TypesInOrder(Tail(obs), seen \cup {Head(obs).type})

RECURSIVE SumOf(_, _)
SumOf(list, field) == IF list = <<>> THEN 0 ELSE Head(list)[field] + SumOf(Tail(list), field)

\* _analyze_signal_performance: per signal type its count, the number of
\* successful ones and the sum of the returns
_analyze_signal_performance(signals, tracking, week_start, week_end) ==
    LET obs   == Observations(JoinedRows(signals, tracking, week_start, week_end))
        types == TypesInOrder(obs, {})
        Of(t) == SelectSeq(obs, LAMBDA o : o.type = t)
    IN [i \in 1..Len(types) |->
           [type       |-> types[i],
            count      |-> Len(Of(types[i])),
            successful |-> Len(SelectSeq(Of(types[i]), LAMBDA o : o.ok)),
            returns    |-> SumOf(Of(types[i]), "ret")]]

\* the score_group of get_tracking_stats
ScoreGroup(t) == IF t.signal_score >= 70 THEN "high" ELSE IF t.signal_score >= 40 THEN "medium" ELSE "low"

RECURSIVE SumColumn(_, _)
SumColumn(rows, column) ==
    IF rows = <<>> THEN 0
    ELSE (IF Head(rows)[column] = None THEN 0 ELSE Head(rows)[column].v) + SumColumn(Tail(rows), column)

\* get_tracking_stats(days): the rows with signal_date >= cutoff and a
\* day7_change
get_tracking_stats(tracking, now, days) ==
    LET rows == SelectSeq(tracking, LAMBDA t : t.signal_date >= now - days /\ t.day7_change # None)
        Won(list) == Len(SelectSeq(list, LAMBDA t : t.is_successful = Some(1)))
        InGroup(g) == SelectSeq(rows, LAMBDA t : ScoreGroup(t) = g)
        groups == {g \in {"high", "medium", "low"} : InGroup(g) # <<>>}
    IN [total_signals      |-> Len(rows),
        successful_signals |-> Won(rows),
        accuracy_rate      |-> IF rows = <<>> THEN 0 ELSE (Won(rows) * 100) \div Len(rows),
        sum_return         |-> SumColumn(rows, "day7_change"),
        sum_max_loss       |-> SumColumn(rows, "max_loss"),
        n_max_loss         |-> Len(SelectSeq(rows, LAMBDA t : t.max_loss # None)),
        by_score           |-> [g \in groups |-> [total      |-> Len(InGroup(g)),
                                                   successful |-> Won(InGroup(g))]]]

\* by_score.get(group, {}).get('accuracy', 0) as a fraction [num, den]
GroupAccuracy(tracking_stats, g) ==
    IF g \in DOMAIN tracking_stats.by_score
    THEN [num |-> tracking_stats.by_score[g].successful * 100, den |-> tracking_stats.by_score[g].total]
    ELSE [num |-> 0, den |-> 1]

\* the concerns of _detect_overfitting in the order they are appended
Concerns(tracking_stats) ==
    LET high == GroupAccuracy(tracking_stats, "high")
        low  == GroupAccuracy(tracking_stats, "low")
        n    == tracking_stats.total_signals
        won  == tracking_stats.successful_signals
    IN (IF high.num > 0 /\ low.num > 0
           /\ high.num * low.den < low.num * high.den + 10 * high.den * low.den
        THEN <<"flat_scores">> ELSE <<>>)
       \o (IF n > 0 /\ won * 100 > 80 * n THEN <<"accuracy_too_high">>
           ELSE IF n = 0 \/ won * 100 < 30 * n THEN <<"accuracy_too_low">>
           ELSE <<>>)
       \o (IF tracking_stats.n_max_loss > 0 /\ tracking_stats.sum_max_loss < (-10) * tracking_stats.n_max_loss
              /\ (n = 0 \/ tracking_stats.sum_return < 3 * n)
           THEN <<"risk_reward">> ELSE <<>>)
       \o (IF n < 20 THEN <<"small_sample">> ELSE <<>>)

\* _detect_overfitting
_detect_overfitting(tracking_stats) ==
    LET concerns == Concerns(tracking_stats)
        Raised(c) == \E i \in 1..Len(concerns) : concerns[i] = c
    IN [is_overfitting |-> Raised("flat_scores") \/ Raised("accuracy_too_high"),
        concerns       |-> concerns,
        severity       |-> IF Raised("risk_reward") \/ Raised("accuracy_too_high") THEN "medium"
                           ELSE IF Raised("accuracy_too_low") THEN "high"
                           ELSE "low"]

\* the suggestions for the signal types, in the order of signal_perf
RECURSIVE TypeSuggestions(_)
TypeSuggestions(signal_perf) ==
    IF signal_perf = <<>> THEN <<>>
    ELSE LET perf == Head(signal_perf)
         IN (IF perf.count >= 5 /\ perf.successful * 100 < 30 * perf.count
             THEN <<[type |-> "reduce_weight", target |-> perf.type, reason |-> "low_accuracy"]>>
             ELSE IF perf.count >= 5 /\ perf.successful * 100 > 70 * perf.count
                     /\ perf.returns > 5 * perf.count
             THEN <<[type |-> "increase_weight", target |-> perf.type, reason |-> "strong"]>>
             ELSE <<>>)
            \o TypeSuggestions(Tail(signal_perf))

\* _generate_optimization_suggestions
_generate_optimization_suggestions(tracking_stats, signal_perf, overfitting) ==
    TypeSuggestions(signal_perf)
    \o (IF GroupAccuracy(tracking_stats, "high").num < 50 * GroupAccuracy(tracking_stats, "high").den
        THEN <<[type |-> "adjust_threshold", target |-> "high_score_threshold",
                reason |-> "high_band_accuracy"]>>
        ELSE <<>>)
    \o (IF overfitting.is_overfitting
        THEN [i \in 1..Len(overfitting.concerns) |->
                 [type |-> "review", target |-> "model", reason |-> overfitting.concerns[i]]]
        ELSE <<>>)

\* analyze_week on day now: the week is now - 7 .. now, the statistics
\* cover 14 days
analyze_week(signals, tracking, now) ==
    LET tracking_stats       == get_tracking_stats(tracking, now, 14)
        signal_perf == _analyze_signal_performance(signals, tracking, now - 7, now)
        overfitting == _detect_overfitting(tracking_stats)
    IN [accuracy_rate            |-> tracking_stats.accuracy_rate,
        signal_performance       |-> signal_perf,
        overfitting_analysis     |-> overfitting,
        optimization_suggestions |-> _generate_optimization_suggestions(tracking_stats, signal_perf, overfitting)]
----------------------------------------------------------------------------
(* The weekly job on a tracked week: the database holds the signals of     *)
(* day 1 with their outcomes as the update pass of day 8 wrote them, and   *)
(* WeeklyAnalyzer.run() is started on day 8.                               *)

\* runs of the weekly job in one behaviour
MaxWeeklyRuns == 2

\* the day the signals of the week were saved, and the day of the job
SignalDay == 1
JobDay == SignalDay + 7

\* a scan result with its tags, and what the chart made of it: the close
\* seven sessions later and the lowest low of the period
Tracked(symbol, tags, score, close7, low) ==
    [result |-> [symbol |-> symbol, price |-> 100, score |-> score,
                 signals |-> [k \in 1..Len(tags) |-> Tag(tags[k], 0)]],
     close7 |-> close7, low |-> low]

Repeat(n, x) == [k \in 1..n |-> x]

\* the weeks the job may find
Weeks ==
    { <<>>,
      Repeat(5, Tracked(AAA, <<"macd_golden_cross">>, 75, 95, 85)),
      Repeat(5, Tracked(BBB, <<"breakout_52w", "breakout_20d">>, 75, 95, 95)),
      Repeat(5, Tracked(CCC, <<"volume_surge">>, 75, 108, 99)),
      Repeat(5, Tracked(AAA, <<"rsi_cross_50">>, 45, 101, 99)),
      Repeat(2, Tracked(AAA, <<"obv_rising">>, 75, 108, 99))
          \o <<Tracked(AAA, <<"obv_rising">>, 75, 95, 95)>>
          \o Repeat(2, Tracked(BBB, <<"obv_rising">>, 30, 108, 99))
          \o <<Tracked(BBB, <<"obv_rising">>, 30, 95, 95)>>,
      Repeat(10, Tracked(AAA, <<"macd_bullish_accel">>, 75, 108, 99))
          \o Repeat(10, Tracked(BBB, <<"macd_bullish_accel">>, 75, 95, 95)) }

\* the data dictionary of the pass that found the bars of the whole period
Outcome(week, k) ==
    LET fields == ("day7_price" :> week[k].close7)
                  @@ ("day7_change" :> Pct(week[k].close7, week[k].result.price))
                  @@ ("max_loss" :> Pct(week[k].low, week[k].result.price))
    IN fields @@ Judged(fields)

RECURSIVE TrackWeek(_, _, _)
TrackWeek(rows, week, k) ==
    IF k > Len(week) THEN rows
    ELSE TrackWeek(update_tracking(rows, k, Outcome(week, k), JobDay), week, k + 1)

\* the tables after the scan of SignalDay saved the week's results and the
\* update pass tracked them
TrackedWeek(week) ==
    LET saved == save_screening_results([signals |-> <<>>, tracking |-> <<>>],
                                        [k \in 1..Len(week) |-> week[k].result],
                                        [date |-> SignalDay, seq |-> 1])
    IN [signals |-> saved.signals, tracking |-> TrackWeek(saved.tracking, week, 1)]

\* the weights config.json may hold: none, or the six keys as earlier
\* cycles left them
WeeklyWeights ==
    {None} \cup
    {[LegacyWeights EXCEPT !.price_breakout = a, !.volume_surge = b] :
        a \in {5, 10, 15}, b \in {15, 30, 35}}

\* a config.json that cannot be read as JSON: missing, truncated or
\* otherwise malformed
Unreadable == [unreadable |-> TRUE]

\* _load_config: the parsed file, or {} when reading it raises; {} is the
\* configuration without weights and without any other part
_load_config(file) == IF file = Unreadable THEN [weights |-> None] ELSE file

\* how the writes of a cycle may end: all succeed, open(config_path, 'w')
\* raises, json.dump raises on the file open() has truncated, or
\* save_model_params raises after the file was written
WriteFaults == {"none", "open", "dump", "history"}

WeeklyInit ==
    /\ clock = JobDay
    /\ probe = [d |-> Flat, config |-> _default_config]
    /\ calls = <<>>
    /\ \/ \E w \in WeeklyWeights, t \in BOOLEAN : config_file = [weights |-> w, telegram |-> t]
       \/ config_file = Unreadable
    /\ model_params_history = <<>>
    /\ adjustments = [applied |-> <<>>, skipped |-> <<>>]
    /\ cycles = 0
    /\ \E week \in Weeks :
           /\ screening_results = TrackedWeek(week).signals
           /\ performance_tracking = TrackedWeek(week).tracking
    /\ op = [name |-> "update_all_tracking", seq |-> 2, date |-> JobDay, log |-> <<>>]
    /\ NoOutput
    /\ NoScan

\* WeeklyAnalyzer(CONFIG_PATH).run(): the update pass, analyze_week on the
\* tables it leaves, auto_optimize_model on that analysis.  op records the
\* analysis, self.config as the call leaves it and the exception that
\* leaves the call ("none" when it returns).
WeeklyRun ==
    /\ cycles < MaxWeeklyRuns
    /\ \E charts \in PassResponses(get_pending_tracking(performance_tracking, clock, LookbackDays), 1, clock),
          fault \in WriteFaults :
           LET tracked  == update_all_tracking(performance_tracking, charts, clock).tracking
               analysis == analyze_week(screening_results, tracked, clock)
               config   == _load_config(config_file)
               out      == auto_optimize_model(config, analysis)
               written  == [config EXCEPT !.weights = out.weights]
               error    == IF out.applied = <<>> THEN "none" ELSE fault
           IN /\ performance_tracking' = tracked
              /\ adjustments' = [applied |-> out.applied, skipped |-> out.skipped]
              /\ config_file' = CASE out.applied = <<>> -> config_file
                                  [] fault = "open"    -> config_file
                                  [] fault = "dump"    -> Unreadable
                                  [] OTHER             -> written
              /\ model_params_history' =
                     IF out.applied # <<>> /\ fault = "none"
                     THEN save_model_params(model_params_history, out.weights,
                                            analysis.accuracy_rate, Len(out.applied), clock)
                     ELSE model_params_history
              /\ op' = [name |-> "run", seq |-> op.seq + 1, analysis |-> analysis,
                        config |-> IF out.applied = <<>> THEN config ELSE written,
                        error |-> error]
    /\ cycles' = cycles + 1
    /\ UNCHANGED <<clock, scorer_vars, scan_vars, out_vars, screening_results>>

WeeklyNext == WeeklyRun

WeeklySpec == WeeklyInit /\ [][WeeklyNext]_vars

----------------------------------------------------------------------------
(* Properties of the weekly job.                                           *)

WeeklyStep == op'.seq # op.seq /\ op'.name = "run"

\* the reasons of the review items of a suggestion list, in order
ReviewReasons(suggestions) ==
    LET items == SelectSeq(suggestions, LAMBDA s : s.type = "review")
    IN [i \in 1..Len(items) |-> items[i].reason]

\* C23: over a run of the weekly job, the review items of the suggestion
\* list are the concerns the overfitting detector raised, one item per
\* concern, each of them is put in skipped, and a run whose suggestions are
\* review items only changes no weight.
C23_ConcernsCarriedAndSkipped ==
    [][WeeklyStep =>
          /\ ReviewReasons(op'.analysis.optimization_suggestions)
                 = op'.analysis.overfitting_analysis.concerns
          /\ Len(adjustments'.skipped) = Len(op'.analysis.overfitting_analysis.concerns)
          /\ (\A i \in 1..Len(op'.analysis.optimization_suggestions) :
                  op'.analysis.optimization_suggestions[i].type \in {"review", "adjust_threshold"})
                 => config_file' = config_file]_vars

\* the weight key of the scoring rule that emits a tag; "" for the rules
\* without a signal type of their own
RuleKey(rule) ==
    CASE rule = "ma_golden_cross"                            -> "ma_golden_cross"
      [] rule \in {"macd_golden_cross", "macd_bullish_accel"} -> "macd_golden_cross"
      [] rule \in {"rsi_oversold_rebound", "rsi_cross_50"}    -> "rsi_bullish"
      [] rule = "volume_surge"                               -> "volume_surge"
      [] rule \in {"breakout_52w", "near_52w", "breakout_20d"} -> "price_breakout"
      [] rule = "obv_rising"                                 -> "obv_confirm"
      [] OTHER                                               -> ""

\* the tags of the signals the database holds
StoredTags ==
    UNION {{json_loads(screening_results[k].signals)[i] :
                i \in 1..Len(json_loads(screening_results[k].signals))} :
           k \in 1..Len(screening_results)}

\* C29: over a run of the weekly job, every stored tag is attributed to a
\* signal type whose weight key is that of the rule that emitted the tag,
\* and every weight the run adjusts is the weight of a rule that emitted
\* one of the stored tags.
C29_TagsAttributedToEmittingRule ==
    [][WeeklyStep =>
          /\ \A tag \in StoredTags :
                 signal_to_weight(_extract_signal_type(tag)) = RuleKey(tag.rule)
          /\ \A i \in 1..Len(adjustments'.applied) :
                 adjustments'.applied[i].param \in {RuleKey(tag.rule) : tag \in StoredTags}]_vars

\* C30: a run of the weekly job adjusts no weight key more than once: the
\* applied adjustments name pairwise different keys, and every weight
\* differs from its value before the run by at most 5.
C30_OneStepPerWeight ==
    [][WeeklyStep =>
          /\ \A i, j \in 1..Len(adjustments'.applied) :
                 adjustments'.applied[i].param = adjustments'.applied[j].param => i = j
          /\ \A key \in DOMAIN CurrentWeights(_load_config(config_file)) :
                 /\ CurrentWeights(op'.config)[key] - CurrentWeights(_load_config(config_file))[key] <= WeightStep
                 /\ CurrentWeights(_load_config(config_file))[key] - CurrentWeights(op'.config)[key] <= WeightStep]_vars

C25_FailedUpdateKeepsConfig ==
    [][(WeeklyStep /\ (config_file = Unreadable \/ op'.error # "none")) =>
          /\ config_file' = config_file
          /\ model_params_history' = model_params_history
          /\ op'.config = _load_config(config_file)]_vars

----------------------------------------------------------------------------
(* Further properties of the scans and of the scorer.                      *)

\* C26: the step that ends a scan, priority or extended, appends the run's
\* statistics to data/runtime_history.json as its last entry, keeps the
\* entries before it in order, and leaves at most 100 entries.
C26_EveryRunRecorded ==
    [][(phase = "returned" /\ phase' = "idle") =>
          /\ Len(runtime_history') = Min(Len(runtime_history) + 1, KeepRuns)
          /\ runtime_history'[Len(runtime_history')].scan_type = scan_type
          /\ runtime_history'[Len(runtime_history')].stats = stats
          /\ \A k \in 1..(Len(runtime_history') - 1) :
                 runtime_history'[k]
                     = runtime_history[k + Len(runtime_history) + 1 - Len(runtime_history')]]_vars

TrendClasses == {"strong_up", "steady_up", "mild_up", "choppy", "declining"}

\* the calls that reached the scoring
ScoredCalls == {i \in CallIds : Call(i).frame.stage = "scored"}

\* C27 as stated: every scored call has one of the five trend classes;
\* strong_up and steady_up raise the score, declining lowers it, mild_up and
\* choppy leave it as the rules made it.
C27_MildAndChoppyNeutral ==
    \A i \in ScoredCalls :
        LET f == Call(i).frame
        IN /\ f.trend \in TrendClasses
           /\ f.trend \in {"strong_up", "steady_up"} => f.score > f.rules_score
           /\ f.trend = "declining" => f.score < f.rules_score
           /\ f.trend \in {"mild_up", "choppy"} => f.score = f.rules_score

\* C27 amended: every scored call has one of the five trend classes;
\* strong_up, steady_up and mild_up raise the score (by 15, 10 and 5) and
\* append the trend tag, declining lowers the score by 10 and choppy leaves
\* it as the rules made it, both without a tag.
C27_OnlyChoppyNeutral ==
    \A i \in ScoredCalls :
        LET f == Call(i).frame
            Tagged == f.signals # <<>> /\ f.signals[Len(f.signals)].rule = f.trend
        IN /\ f.trend \in TrendClasses
           /\ f.trend = "strong_up" => f.score = f.rules_score + 15 /\ Tagged
           /\ f.trend = "steady_up" => f.score = f.rules_score + 10 /\ Tagged
           /\ f.trend = "mild_up" => f.score = f.rules_score + 5 /\ Tagged
           /\ f.trend = "declining" => f.score = f.rules_score - 10 /\ ~Tagged
           /\ f.trend = "choppy" => f.score = f.rules_score /\ ~Tagged

\* a scored call whose closes rose mildly
C27_Witness ==
    \E i \in ScoredCalls :
        /\ Call(i).frame.trend = "mild_up"
        /\ Call(i).frame.score = Call(i).frame.rules_score + 5

\* the tasks whose data was missing or whose fetch raised
Unavailable == {i \in Tasks : response[i] \in {"none", "raise"}}

\* the tasks whose series was fetched and scored
Scored == {i \in Tasks : response[i] \in {"ok", "quiet"}}

\* C28: when screen_stocks has returned, failed_stocks is the number of
\* symbols whose data was unavailable or whose fetch raised, and
\* successful_stocks the number of symbols whose series was fetched and
\* scored, with or without a signal.
C28_FailedMeansUnavailable ==
    phase = "returned" =>
        /\ stats.failed_stocks = Cardinality(Unavailable)
        /\ stats.successful_stocks = Cardinality(Scored)

====
